---------------------------- MODULE Spec2Model ----------------------------
(***************************************************************************)
(* Model of the orbital-mechanics and scaling core of the solar-system     *)
(* explorer (src/src/js/utils/AstronomicalCalculations.js and              *)
(* src/src/js/data/SolarSystemData.js).                                    *)
(*                                                                         *)
(* JavaScript numbers are modelled in fixed point.  A dimensionless value  *)
(* or an angle in radians v is the integer v * Scale; an angle in degrees  *)
(* d is the integer d * DegScale; a length in AU is the integer            *)
(* l * AuScale.  Every intermediate stays inside TLC's 32-bit integers:    *)
(* products and quotients go through MulDiv, which never forms a * b.      *)
(* A value that is not a finite number (NaN, an infinity, undefined) is a  *)
(* tagged record, see the "JavaScript values" section.                     *)
(***************************************************************************)
EXTENDS Integers, Sequences, FiniteSets, TLC

(***************************************************************************)
(* Fixed-point arithmetic                                                  *)
(***************************************************************************)
Scale == 10000 * 10000        \* 1e-8 resolution: radians, ratios
DegScale == 100 * 1000        \* 1e-5 degrees (the catalog's precision)

Abs(a) == IF a < 0 THEN -a ELSE a
Sgn(a) == IF a < 0 THEN -1 ELSE 1
Min(a, b) == IF a < b THEN a ELSE b

\* 10^n
RECURSIVE Scale10(_)
Scale10(n) == IF n = 0 THEN 1 ELSE 10 * Scale10(n - 1)
Max(a, b) == IF a > b THEN a ELSE b

Limb == 100 * 100              \* Scale = Limb * Limb

\* |a| * |b| * g / Scale rounded to the nearest integer (g divides Limb),
\* from the four partial products of the operands' limbs
\* (a = a1 * Limb + a0); none exceeds 2^31
MulAbs(a, b, g) ==
  LET a1 == a \div Limb
      a0 == a % Limb
      b1 == b \div Limb
      b0 == b % Limb
      m1 == a1 * b0
      m2 == a0 * b1
      k == Limb \div g
      low == ((m1 % k) + (m2 % k)) * Limb + a0 * b0
  IN g * a1 * b1 + (m1 \div k) + (m2 \div k)
       + ((low + (k * Limb) \div 2) \div (k * Limb))

\* product of two Scale-d values, rounded to nearest as a floating-point
\* product is
Mul(a, b) == Sgn(a) * Sgn(b) * MulAbs(Abs(a), Abs(b), 1)

\* product of a Scale-d value and one whose scale is g times coarser than
\* the result's
MulTo(a, b, g) == Sgn(a) * Sgn(b) * MulAbs(Abs(a), Abs(b), g)

\* a / k for a small positive integer k, rounded to the nearest integer
RoundDiv(a, k) == Sgn(a) * ((Abs(a) + (k \div 2)) \div k)

\* the next `n` decimal digits of r / b (0 <= r < b < 2^31 / 10), with the
\* remainder: <<digits, remainder>>
RECURSIVE LongDiv(_, _, _)
LongDiv(r, b, n) ==
  IF n = 0 THEN <<0, r>>
  ELSE LET d == (10 * r) \div b
           rest == LongDiv((10 * r) % b, b, n - 1)
       IN <<d * Scale10(n - 1) + rest[1], rest[2]>>

DivLimit == 2 * Scale          \* 10 * remainder stays below 2^31

\* |a| * Scale / |b| rounded to the nearest integer, by long division; a
\* divisor too large for it is halved together with the dividend
RECURSIVE DivAbs(_, _)
DivAbs(a, b) ==
  IF b > DivLimit THEN DivAbs(RoundDiv(a, 2), RoundDiv(b, 2))
  ELSE LET qr == LongDiv(a % b, b, 8)
       IN (a \div b) * Scale + qr[1] + (IF 2 * qr[2] >= b THEN 1 ELSE 0)

\* quotient of two Scale-d values (b # 0)
Div(a, b) == Sgn(a) * Sgn(b) * DivAbs(Abs(a), Abs(b))

(***************************************************************************)
(* Math.sin, Math.cos                                                      *)
(***************************************************************************)
Pi == 314159265
TwoPi == 628318531
HalfPi == 157079633

\* x reduced to (-Pi, Pi] by whole turns
ReduceAngle(x) ==
  LET m == x % TwoPi    \* in 0 .. TwoPi - 1
  IN IF m > Pi THEN m - TwoPi ELSE m

\* sum of the Taylor series of sin from the term `term` = x^(2n-1)/(2n-1)!
RECURSIVE SinSeries(_, _, _, _)
SinSeries(x2, term, n, acc) ==
  IF term = 0 \/ n > 10 THEN acc
  ELSE LET next == -RoundDiv(Mul(term, x2), (2 * n) * (2 * n + 1))
       IN SinSeries(x2, next, n + 1, acc + term)

Sin(x) ==
  LET r == ReduceAngle(x)
      f == IF r > HalfPi THEN Pi - r
           ELSE IF r < -HalfPi THEN -Pi - r
           ELSE r
  IN Max(-Scale, Min(Scale, SinSeries(Mul(f, f), f, 1, 0)))

Cos(x) == Sin(x + HalfPi)

(***************************************************************************)
(* Math.sqrt, Math.atan2                                                   *)
(***************************************************************************)
\* Newton's iteration for the square root of a Scale-d value v > 0
RECURSIVE SqrtIter(_, _, _)
SqrtIter(v, y, n) ==
  IF n = 0 THEN y
  ELSE LET z == RoundDiv(y + Div(v, y), 2)
       IN IF Abs(z - y) <= 1 THEN z ELSE SqrtIter(v, z, n - 1)

Sqrt(v) == IF v <= 0 THEN 0 ELSE SqrtIter(v, RoundDiv(v + Scale, 2), 30)

\* the arctangent series t - t^3/3 + t^5/5 - ... from the power `pow` = t^k
RECURSIVE AtanSeries(_, _, _, _)
AtanSeries(t2, pow, k, acc) ==
  IF pow = 0 \/ k > 25 THEN acc
  ELSE AtanSeries(t2, -Mul(pow, t2), k + 2, acc + RoundDiv(pow, k))

\* atan t = 2 atan (t / (1 + sqrt(1 + t^2)))
HalveTangent(t) == Div(t, Scale + Sqrt(Scale + Mul(t, t)))

\* arctangent of a Scale-d t with |t| <= 1: two halvings, then the series
Atan(t) ==
  LET h == HalveTangent(HalveTangent(t))
  IN 4 * AtanSeries(Mul(h, h), h, 1, 0)

\* Math.atan2(y, x), in (-Pi, Pi]
Atan2(y, x) ==
  IF x = 0 /\ y = 0 THEN 0
  ELSE IF Abs(y) <= Abs(x)
       THEN LET a == Atan(Div(y, x))
            IN IF x > 0 THEN a
               ELSE IF y >= 0 THEN a + Pi ELSE a - Pi
       ELSE LET a == Atan(Div(x, y))
            IN IF y > 0 THEN HalfPi - a ELSE -HalfPi - a

(***************************************************************************)
(* JavaScript values.  A finite number is Num(v) with v in fixed point;    *)
(* the other values a numeric expression can yield are told apart by tag.  *)
(***************************************************************************)
Num(v) == [t |-> "number", v |-> v]
NaN == [t |-> "NaN"]
Undefined == [t |-> "undefined"]
PosInf == [t |-> "Infinity"]
NegInf == [t |-> "-Infinity"]
Null == [t |-> "null"]

IsNum(x) == x.t = "number"

\* obj.f: the field's value, or undefined when the object has no such field
Field(obj, f) == IF f \in DOMAIN obj THEN Num(obj[f]) ELSE Undefined

\* a - b
JsSub(a, b) ==
  CASE IsNum(a) /\ IsNum(b) -> Num(a.v - b.v)
    [] a.t \in {"NaN", "undefined"} \/ b.t \in {"NaN", "undefined"} -> NaN
    [] a = b -> NaN                          \* Infinity - Infinity
    [] a = PosInf \/ b = NegInf -> PosInf
    [] OTHER -> NegInf

\* Math.max(0, a)
JsMaxZero(a) ==
  CASE IsNum(a) -> Num(Max(0, a.v))
    [] a = PosInf -> PosInf
    [] a = NegInf -> Num(0)
    [] OTHER -> NaN

(***************************************************************************)
(* The catalog: SOLAR_SYSTEM_DATA and MOONS_DATA.                          *)
(* radius in 0.1 km; semiMajorAxis as <<whole AU, 1e-8 AU>>; orbitalPeriod *)
(* in 1e-3 days; eccentricity Scale-d; angles in 1e-5 degrees.             *)
(***************************************************************************)
KmScale == 10
AuScale == 1000 * 10000       \* 1e-7 AU: positions and distances
DayScale == 1000

Body(r, aWhole, aFrac, p, e, inc, node, peri, lon) ==
  [radius |-> r, semiMajorAxis |-> <<aWhole, aFrac>>, orbitalPeriod |-> p,
   eccentricity |-> e, inclination |-> inc,
   longitudeOfAscendingNode |-> node, longitudeOfPerihelion |-> peri,
   meanLongitude |-> lon]

SOLAR_SYSTEM_DATA ==
  [sun     |-> Body(6963400, 0, 0, 0, 0, 0, 0, 0, 0),
   mercury |-> Body(24397, 0, 38709800, 87969, 20563000, 700500,
                    4833100, 7745600, 25225100),
   venus   |-> Body(60518, 0, 72333200, 224701, 677200, 339458,
                    7668000, 13156400, 18198000),
   earth   |-> Body(63710, 1, 11, 365256, 1671022, 5,
                    -1126064, 10294719, 10046435),
   mars    |-> Body(33895, 1, 52366231, 686980, 9341233, 185061,
                    4957854, 33604084, 35545332),
   jupiter |-> Body(699110, 5, 20336301, 4332589, 4839266, 130530,
                    10055615, 1475385, 3440438),
   saturn  |-> Body(582320, 9, 53707032, 10759220, 5415060, 248446,
                    11371504, 9243194, 4994432),
   uranus  |-> Body(253620, 19, 19126393, 30688500, 4716771, 76986,
                    7422988, 17096424, 31323218),
   neptune |-> Body(246220, 30, 6896348, 60182000, 858587, 176917,
                    13172169, 4497135, 30488003)]

\* the moon's entry has no longitudeOfAscendingNode, longitudeOfPerihelion
\* or meanLongitude, and its semiMajorAxis is in km
MOONS_DATA ==
  [moon |-> [parent |-> "earth", radius |-> 17374,
             semiMajorAxis |-> <<384400, 0>>, orbitalPeriod |-> 27322,
             eccentricity |-> 5490000, inclination |-> 514500]]

PlanetNames == DOMAIN SOLAR_SYSTEM_DATA \ {"sun"}
BodyNames == DOMAIN SOLAR_SYSTEM_DATA \cup DOMAIN MOONS_DATA

\* SOLAR_SYSTEM_DATA[bodyName] || MOONS_DATA[bodyName]
Lookup(bodyName) ==
  IF bodyName \in DOMAIN SOLAR_SYSTEM_DATA THEN SOLAR_SYSTEM_DATA[bodyName]
  ELSE IF bodyName \in DOMAIN MOONS_DATA THEN MOONS_DATA[bodyName]
  ELSE Undefined

\* emissiveIntensity in tenths
IntensityScale == 10

\* the color (0xRRGGBB) and emissiveIntensity fields of the entries
Appearance ==
  [sun     |-> [color |-> 16776960, emissiveIntensity |-> 8],
   mercury |-> [color |-> 9205843, emissiveIntensity |-> 0],
   venus   |-> [color |-> 16762441, emissiveIntensity |-> 0],
   earth   |-> [color |-> 7050198, emissiveIntensity |-> 0],
   mars    |-> [color |-> 13458524, emissiveIntensity |-> 0],
   jupiter |-> [color |-> 14207645, emissiveIntensity |-> 0],
   saturn  |-> [color |-> 16429691, emissiveIntensity |-> 0],
   uranus  |-> [color |-> 5230823, emissiveIntensity |-> 0],
   neptune |-> [color |-> 4944093, emissiveIntensity |-> 0],
   moon    |-> [color |-> 11184810, emissiveIntensity |-> 0]]

\* the entry objects of SOLAR_SYSTEM_DATA and MOONS_DATA as the module
\* creates them, by name
CatalogObjects ==
  [n \in BodyNames |->
     [f \in DOMAIN Lookup(n) \cup DOMAIN Appearance[n] |->
        IF f \in DOMAIN Lookup(n) THEN Lookup(n)[f] ELSE Appearance[n][f]]]

\* semiMajorAxis === 0
AuIsZero(a) == a[1] = 0 /\ a[2] = 0
\* semiMajorAxis in AuScale units
AuToFixed(a) == a[1] * AuScale + RoundDiv(a[2], Scale \div AuScale)

(***************************************************************************)
(* getDaysSinceJ2000: a date is its time in 1e-3 days since 1970-01-01     *)
(***************************************************************************)
UnixEpochHalfDays == 4881175  \* Julian date 2440587.5
J2000HalfDays == 4903090      \* J2000_EPOCH = 2451545.0

\* the day count with the epoch taken at midnight, 2451544.5
DaysSinceMidnightEpoch(date) ==
  date + (UnixEpochHalfDays - J2000HalfDays + 1) * (DayScale \div 2)

\* dateToJulianDate(date) - J2000_EPOCH
getDaysSinceJ2000(date) ==
  date + (UnixEpochHalfDays - J2000HalfDays) * (DayScale \div 2)

\* the date of the epoch itself, 2000-01-01T12:00:00Z
J2000Date == (J2000HalfDays - UnixEpochHalfDays) * (DayScale \div 2)

(***************************************************************************)
(* calculateMeanAnomaly                                                    *)
(***************************************************************************)
FullTurn == 360 * DegScale

\* the JavaScript remainder a % b, with the sign of a (b > 0)
JsRem(a, b) == Sgn(a) * (Abs(a) % b)

\* a single remainder, which keeps the sign of a negative angle
NormalizeOnce(meanAnomaly) == JsRem(meanAnomaly, FullTurn)

\* ((meanAnomaly % 360) + 360) % 360
Normalize360(meanAnomaly) ==
  JsRem(JsRem(meanAnomaly, FullTurn) + FullTurn, FullTurn)

\* a mean motion of 365 degrees per period
MeanMotionPerYear(orbitalPeriod) == Div(365 * DayScale, orbitalPeriod)

\* meanMotion = 360.0 / orbitalPeriod, in 1e-8 degrees per day
MeanMotion(orbitalPeriod) == Div(360 * DayScale, orbitalPeriod)

\* currentMeanLongitude - longitudeOfPerihelion before normalization
RawMeanAnomaly(meanLongitude, orbitalPeriod, longitudeOfPerihelion, days) ==
  meanLongitude
    + MulTo(MeanMotion(orbitalPeriod), days, DegScale \div DayScale)
    - longitudeOfPerihelion

\* a missing element is undefined and makes the sum NaN; a zero period makes
\* the mean motion infinite and the remainder NaN
calculateMeanAnomaly(orbitalElements, date) ==
  LET period == Field(orbitalElements, "orbitalPeriod")
      lon == Field(orbitalElements, "meanLongitude")
      peri == Field(orbitalElements, "longitudeOfPerihelion")
  IN IF ~IsNum(period) \/ ~IsNum(lon) \/ ~IsNum(peri) THEN NaN
     ELSE IF period.v = 0 THEN NaN
     ELSE Num(Normalize360(RawMeanAnomaly(lon.v, period.v, peri.v,
                                           getDaysSinceJ2000(date))))

(***************************************************************************)
(* solveKeplersEquation, one loop iteration per step                       *)
(***************************************************************************)
VARIABLES
  kepler,        \* the running call of solveKeplersEquation
  call,          \* the last call of the other functions, with its outcome
  sceneManager,  \* the SceneManager and its asynchronous calls in progress
  orbitLine,     \* an OrbitLine
  catalog,       \* the objects of SOLAR_SYSTEM_DATA and MOONS_DATA
  app            \* the SolarSystemApp: loop, controls, travel, camera

vars == <<kepler, call, sceneManager, orbitLine, catalog, app>>

DefaultTolerance == 100       \* 1e-6
DefaultMaxIterations == 20

\* the grid of mean anomalies (degrees) the solver is called with
AnomalyStep == 15
MinAnomalySteps == 24         \* down to -360 degrees
MaxAnomalySteps == 48         \* up to 720 degrees
MeanAnomalies ==
  {k * AnomalyStep * DegScale : k \in (0 - MinAnomalySteps)..MaxAnomalySteps}

\* eccentricities: circular, the catalog's planets, the validated limit 0.25,
\* and two beyond it
Eccentricities ==
  {0, 677200, 1671022, 4839266, 9341233, 20563000, 25000000,
   50000000, 90000000}
ValidatedEccentricity == Scale \div 4     \* 0.25

\* iteration budgets a caller may pass (the default among them)
IterationBudgets == {1, 2, DefaultMaxIterations}

\* degrees (DegScale) to radians (Scale): d * DEGREES_TO_RADIANS, where
\* Math.PI / 180 * Scale / DegScale = 17.45329252
DegToRad(d) == 17 * d + Mul(d, 45329252)

\* delta = E - e sin E - M
KeplerResidual(eccentricAnomaly, eccentricity, meanAnomalyRad) ==
  eccentricAnomaly - Mul(eccentricity, Sin(eccentricAnomaly)) - meanAnomalyRad

\* deltaE = delta / (1 - e cos E)
NewtonStep(eccentricAnomaly, eccentricity, meanAnomalyRad) ==
  Div(KeplerResidual(eccentricAnomaly, eccentricity, meanAnomalyRad),
      Scale - Mul(eccentricity, Cos(eccentricAnomaly)))

\* the step compared signed, without Math.abs
ConvergedSigned(deltaE, tolerance) == deltaE < tolerance

\* the exit test of the loop
Converged(deltaE, tolerance) == Abs(deltaE) < tolerance

\* a loop that runs while i <= maxIterations
LoopContinuesInclusive(i, maxIterations) == i <= maxIterations

\* the loop condition
LoopContinues(i, maxIterations) == i < maxIterations

KeplerIdle == [pc |-> "idle"]

\* entry: meanAnomalyRad and the first estimate E0 = M
KeplerCall ==
  /\ kepler.pc = "idle"
  /\ \E m \in MeanAnomalies, e \in Eccentricities, n \in IterationBudgets :
       kepler' = [pc |-> "loop", meanAnomaly |-> m, eccentricity |-> e,
                  tolerance |-> DefaultTolerance, maxIterations |-> n,
                  meanAnomalyRad |-> DegToRad(m),
                  eccentricAnomaly |-> DegToRad(m),
                  i |-> 0, updates |-> 0, deltaE |-> 0, broke |-> FALSE]
  /\ UNCHANGED <<call, sceneManager, orbitLine, catalog, app>>

\* one pass of the for loop: the update, then the break test
KeplerIterate ==
  /\ kepler.pc = "loop"
  /\ LoopContinues(kepler.i, kepler.maxIterations)
  /\ LET deltaE == NewtonStep(kepler.eccentricAnomaly, kepler.eccentricity,
                              kepler.meanAnomalyRad)
         brk == Converged(deltaE, kepler.tolerance)
     IN kepler' = [kepler EXCEPT
                     !.eccentricAnomaly = @ - deltaE,
                     !.deltaE = deltaE,
                     !.updates = @ + 1,
                     !.broke = brk,
                     !.i = IF brk THEN @ ELSE @ + 1,
                     !.pc = IF brk THEN "return" ELSE "loop"]
  /\ UNCHANGED <<call, sceneManager, orbitLine, catalog, app>>

\* the loop condition i < maxIterations fails
KeplerExhaust ==
  /\ kepler.pc = "loop"
  /\ ~LoopContinues(kepler.i, kepler.maxIterations)
  /\ kepler' = [kepler EXCEPT !.pc = "return"]
  /\ UNCHANGED <<call, sceneManager, orbitLine, catalog, app>>

\* return eccentricAnomaly: the only way out of the function
KeplerReturn ==
  /\ kepler.pc = "return"
  /\ kepler' = [pc |-> "done", meanAnomaly |-> kepler.meanAnomaly,
                eccentricity |-> kepler.eccentricity,
                tolerance |-> kepler.tolerance,
                maxIterations |-> kepler.maxIterations,
                meanAnomalyRad |-> kepler.meanAnomalyRad,
                updates |-> kepler.updates, deltaE |-> kepler.deltaE,
                broke |-> kepler.broke,
                result |-> kepler.eccentricAnomaly]
  /\ UNCHANGED <<call, sceneManager, orbitLine, catalog, app>>

NextKepler == KeplerCall \/ KeplerIterate \/ KeplerExhaust \/ KeplerReturn

\* the whole loop, as its callers run it
RECURSIVE KeplerLoop(_, _, _, _, _, _)
KeplerLoop(E, eccentricity, meanAnomalyRad, tolerance, maxIterations, i) ==
  IF ~LoopContinues(i, maxIterations) THEN E
  ELSE LET deltaE == NewtonStep(E, eccentricity, meanAnomalyRad)
       IN IF Converged(deltaE, tolerance) THEN E - deltaE
          ELSE KeplerLoop(E - deltaE, eccentricity, meanAnomalyRad,
                          tolerance, maxIterations, i + 1)

\* solveKeplersEquation(meanAnomaly, eccentricity) with the default
\* tolerance and budget: the eccentric anomaly in radians
solveKeplersEquation(meanAnomaly, eccentricity) ==
  KeplerLoop(DegToRad(meanAnomaly), eccentricity, DegToRad(meanAnomaly),
             DefaultTolerance, DefaultMaxIterations, 0)

(***************************************************************************)
(* Positions                                                               *)
(***************************************************************************)
\* radians (Scale) to degrees (DegScale): r * RADIANS_TO_DEGREES, where
\* 180 / Math.PI * DegScale / Scale = 0.05729577951
RadToDeg(r) == Mul(r, 5729578)

\* A `const` of the source is a value computed once: it is bound by
\* CHOOSE v \in {f(c) : c \in {value}} : TRUE, which is f(value).

\* 2 atan2(sqrt(1 + e) sin(E / 2), sqrt(1 - e) cos(E / 2))
calculateTrueAnomaly(eccentricAnomaly, eccentricity) ==
  CHOOSE trueAnomaly \in
    {2 * Atan2(y, x) :
       y \in {Mul(Sqrt(Scale + eccentricity),
                  Sin(RoundDiv(eccentricAnomaly, 2)))},
       x \in {Mul(Sqrt(Scale - eccentricity),
                  Cos(RoundDiv(eccentricAnomaly, 2)))}} : TRUE

NaNOrbitalPosition(meanAnomaly) ==
  [x |-> NaN, y |-> NaN, distance |-> NaN, trueAnomaly |-> NaN,
   eccentricAnomaly |-> NaN, meanAnomaly |-> meanAnomaly]

\* the returned object of calculateOrbitalPosition
PlanePosition(meanAnomaly, eccentricAnomaly, trueAnomaly, distance) ==
  [x |-> Num(Mul(distance, Cos(trueAnomaly))),
   y |-> Num(Mul(distance, Sin(trueAnomaly))),
   distance |-> Num(distance),
   trueAnomaly |-> Num(trueAnomaly),
   eccentricAnomaly |-> Num(eccentricAnomaly),
   meanAnomaly |-> meanAnomaly]

\* trueAnomaly and distance = a (1 - e cos E) from the eccentric anomaly
SolvedOrbitalPosition(orbitalElements, meanAnomaly, eccentricAnomaly) ==
  CHOOSE pos \in
    {PlanePosition(meanAnomaly, eccentricAnomaly, trueAnomaly, distance) :
       trueAnomaly \in {calculateTrueAnomaly(eccentricAnomaly,
                                             orbitalElements.eccentricity)},
       distance \in {Mul(AuToFixed(orbitalElements.semiMajorAxis),
                         Scale - Mul(orbitalElements.eccentricity,
                                     Cos(eccentricAnomaly)))}} : TRUE

\* with a mean anomaly that is NaN the solver runs out its budget on NaN
\* and every later value is NaN
OrbitalPositionAt(orbitalElements, meanAnomaly) ==
  IF ~IsNum(meanAnomaly) THEN NaNOrbitalPosition(meanAnomaly)
  ELSE CHOOSE pos \in
         {SolvedOrbitalPosition(orbitalElements, meanAnomaly, eccentricAnomaly) :
            eccentricAnomaly \in
              {solveKeplersEquation(meanAnomaly.v,
                                    orbitalElements.eccentricity)}} : TRUE

\* position in the orbital plane
calculateOrbitalPosition(orbitalElements, date) ==
  CHOOSE pos \in
    {OrbitalPositionAt(orbitalElements, meanAnomaly) :
       meanAnomaly \in {calculateMeanAnomaly(orbitalElements, date)}} : TRUE

\* rotation by the inclination and the longitude of the ascending node
RotateToNode(xPeri, yPeri, inclinationRad, nodeRad) ==
  CHOOSE pos \in
    {[x |-> Num(Mul(xPeri, Cos(nodeRad)) - Mul(yInc, Sin(nodeRad))),
      y |-> Num(Mul(xPeri, Sin(nodeRad)) + Mul(yInc, Cos(nodeRad))),
      z |-> Num(zInc)] :
       yInc \in {Mul(yPeri, Cos(inclinationRad))},
       zInc \in {Mul(yPeri, Sin(inclinationRad))}} : TRUE

\* rotation by the argument of perihelion, then RotateToNode
RotateToEcliptic(x, y, inclinationRad, nodeRad, perihelionRad) ==
  CHOOSE pos \in
    {RotateToNode(xPeri, yPeri, inclinationRad, nodeRad) :
       xPeri \in {Mul(x, Cos(perihelionRad)) - Mul(y, Sin(perihelionRad))},
       yPeri \in {Mul(x, Sin(perihelionRad)) + Mul(y, Cos(perihelionRad))}} :
    TRUE

\* rotation by the argument of perihelion, the inclination and the node;
\* a missing angle is undefined and makes every coordinate NaN
transformToEcliptic(orbitalPos, orbitalElements) ==
  IF ~(/\ IsNum(orbitalPos.x) /\ IsNum(orbitalPos.y)
       /\ IsNum(Field(orbitalElements, "inclination"))
       /\ IsNum(Field(orbitalElements, "longitudeOfAscendingNode"))
       /\ IsNum(Field(orbitalElements, "longitudeOfPerihelion")))
  THEN [x |-> NaN, y |-> NaN, z |-> NaN]
  ELSE CHOOSE pos \in
         {RotateToEcliptic(orbitalPos.x.v, orbitalPos.y.v, inclinationRad,
                           nodeRad, perihelionRad) :
            inclinationRad \in {DegToRad(orbitalElements.inclination)},
            nodeRad \in {DegToRad(orbitalElements.longitudeOfAscendingNode)},
            perihelionRad \in
              {DegToRad(orbitalElements.longitudeOfPerihelion
                          - orbitalElements.longitudeOfAscendingNode)}} : TRUE

\* trueAnomaly * RADIANS_TO_DEGREES
ToDegrees(a) == IF IsNum(a) THEN Num(RadToDeg(a.v)) ELSE NaN

SunPosition == [x |-> Num(0), y |-> Num(0), z |-> Num(0)]

\* {...eclipticPos, distance, trueAnomaly, eccentricAnomaly, meanAnomaly}
HeliocentricFrom(orbitalPos, eclipticPos) ==
  [x |-> eclipticPos.x, y |-> eclipticPos.y, z |-> eclipticPos.z,
   distance |-> orbitalPos.distance,
   trueAnomaly |-> ToDegrees(orbitalPos.trueAnomaly),
   eccentricAnomaly |-> ToDegrees(orbitalPos.eccentricAnomaly),
   meanAnomaly |-> orbitalPos.meanAnomaly]

EclipticPositionOf(orbitalPos, orbitalElements) ==
  CHOOSE pos \in
    {HeliocentricFrom(orbitalPos, eclipticPos) :
       eclipticPos \in {transformToEcliptic(orbitalPos, orbitalElements)}} :
    TRUE

\* the Sun (semiMajorAxis === 0) is at the origin: {x, y, z} and no other
\* field; a body has the ecliptic position and the anomalies in degrees
calculateHeliocentricPosition(orbitalElements, date) ==
  IF AuIsZero(orbitalElements.semiMajorAxis) THEN SunPosition
  ELSE CHOOSE pos \in
         {EclipticPositionOf(orbitalPos, orbitalElements) :
            orbitalPos \in {calculateOrbitalPosition(orbitalElements, date)}} :
         TRUE

\* whether calculateHeliocentricPosition reaches solveKeplersEquation
RunsSolver(orbitalElements) == ~AuIsZero(orbitalElements.semiMajorAxis)

\* position.f: undefined when the position has no such field
PosField(position, f) == IF f \in DOMAIN position THEN position[f] ELSE Undefined

(***************************************************************************)
(* Orbital velocity and the astronomical information record                *)
(***************************************************************************)
\* GM_SUN / AU_TO_KM in 1e-4 km^2/s^2 per (1/AU): 887.1279
GmPerAu == 8871279

\* n / (x * AU_TO_KM) in 1/AU for a distance x in AU (n > 0)
JsDivAu(n, x) ==
  CASE x.t \in {"NaN", "undefined"} -> NaN
    [] x = Num(0) -> PosInf
    [] OTHER -> Num(Div(n * AuScale, x.v))

\* 1 / semiMajorAxisKm in 1/AU
OneOverAxis(a) ==
  IF AuIsZero(a) THEN PosInf
  ELSE IF a[1] >= Limb THEN Num(RoundDiv(Scale, a[1]))
  ELSE Num(Div(AuScale, AuToFixed(a)))

\* GM_SUN * x, in 1e-4 km^2/s^2
JsTimesGm(x) == IF IsNum(x) THEN Num(Mul(x.v, GmPerAu)) ELSE x

\* Math.sqrt(x) of a value in 1e-4 km^2/s^2 (x >= 0), in 1e-6 km/s
JsSqrt(x) == IF IsNum(x) THEN Num(Sqrt(x.v)) ELSE x

\* vis-viva: sqrt(max(0, GM (2 / r - 1 / a)))
calculateOrbitalVelocity(orbitalElements, currentDistance) ==
  LET velocitySquared ==
        JsTimesGm(JsSub(JsDivAu(2, currentDistance),
                        OneOverAxis(orbitalElements.semiMajorAxis)))
  IN JsSqrt(JsMaxZero(velocitySquared))

AstronomicalInfoOf(bodyName, date, position, velocity) ==
  [name |-> bodyName, date |-> date, position |-> position,
   distanceFromSun |-> PosField(position, "distance"),
   orbitalVelocity |-> velocity,
   meanAnomaly |-> PosField(position, "meanAnomaly"),
   trueAnomaly |-> PosField(position, "trueAnomaly"),
   eccentricAnomaly |-> PosField(position, "eccentricAnomaly")]

InfoAtPosition(bodyName, orbitalElements, date, position) ==
  CHOOSE info \in
    {AstronomicalInfoOf(bodyName, date, position, velocity) :
       velocity \in {calculateOrbitalVelocity(orbitalElements,
                                              PosField(position, "distance"))}} :
    TRUE

calculateAstronomicalInfo(bodyName, orbitalElements, date) ==
  CHOOSE info \in
    {InfoAtPosition(bodyName, orbitalElements, date, position) :
       position \in {calculateHeliocentricPosition(orbitalElements, date)}} :
    TRUE

(***************************************************************************)
(* Scaling profiles and radius scaling                                     *)
(***************************************************************************)
\* A size scale 1 / k is the pair <<n, d>> with n / d scene units (Scale)
\* per KmScale unit of radius; scene lengths are Scale-d.
TRUE_ASTRONOMICAL_SCALING ==
  [distanceScale |-> 1000, baseSizeScale |-> <<10, 1>>,
   minPlanetRadius |-> Scale \div 1000, maxSizeEnhancement |-> Scale,
   sunSizeScale |-> <<100, 1>>, sunMinRadius |-> 7 * (Scale \div 10)]

EXPLORATION_SCALING ==
  [distanceScale |-> 50, baseSizeScale |-> <<400, 1>>,
   minPlanetRadius |-> 8 * (Scale \div 10), maxSizeEnhancement |-> 5 * Scale,
   sunSizeScale |-> <<50, 1>>, sunMinRadius |-> 8 * Scale]

ARTISTIC_SCALING ==
  [distanceScale |-> 25, baseSizeScale |-> <<1250, 1>>,
   minPlanetRadius |-> 2 * Scale, maxSizeEnhancement |-> 12 * Scale,
   sunSizeScale |-> <<200, 3>>, sunMinRadius |-> 15 * Scale]

getScalingConfig(mode) ==
  CASE mode = "realistic" -> TRUE_ASTRONOMICAL_SCALING
    [] mode = "exploration" -> EXPLORATION_SCALING
    [] mode = "artistic" -> ARTISTIC_SCALING
    [] OTHER -> EXPLORATION_SCALING

\* originalRadius * sizeScale
ScaleRadius(originalRadius, sizeScale) ==
  RoundDiv(originalRadius * sizeScale[1], sizeScale[2])

\* the factor of an enhanced radius, always the cap
EnhancementFactorCapOnly(baseScaledRadius, scaling) ==
  scaling.maxSizeEnhancement

\* Math.min(maxSizeEnhancement, minPlanetRadius / baseScaledRadius); a
\* quotient beyond the cap is not computed
enhancementFactor(baseScaledRadius, scaling) ==
  IF scaling.minPlanetRadius \div baseScaledRadius
       > scaling.maxSizeEnhancement \div Scale
  THEN scaling.maxSizeEnhancement
  ELSE Min(scaling.maxSizeEnhancement,
           Div(scaling.minPlanetRadius, baseScaledRadius))

\* the enhancement test with the comparison left out
NeedsEnhancementAlways(baseScaledRadius, scaling) ==
  scaling.minPlanetRadius # 0

\* scaling.minPlanetRadius && baseScaledRadius < scaling.minPlanetRadius
NeedsEnhancement(baseScaledRadius, scaling) ==
  scaling.minPlanetRadius # 0 /\ baseScaledRadius < scaling.minPlanetRadius

\* the scaled radius with the Sun's floor left out
calculateScaledRadiusNoFloor(originalRadius, bodyName, scaling, mode) ==
  ScaleRadius(originalRadius,
              IF bodyName = "sun" THEN scaling.sunSizeScale
              ELSE scaling.baseSizeScale)

\* every profile sets sunMinRadius, minPlanetRadius and maxSizeEnhancement,
\* so the `||` defaults of the source are never taken
calculateScaledRadius(originalRadius, bodyName, scaling, mode) ==
  IF bodyName = "sun"
  THEN Max(ScaleRadius(originalRadius, scaling.sunSizeScale),
           scaling.sunMinRadius)
  ELSE LET baseScaledRadius == ScaleRadius(originalRadius,
                                           scaling.baseSizeScale)
       IN IF mode = "realistic"
          THEN Max(baseScaledRadius, scaling.minPlanetRadius)
          ELSE IF NeedsEnhancement(baseScaledRadius, scaling)
          THEN Mul(baseScaledRadius,
                   enhancementFactor(baseScaledRadius, scaling))
          ELSE baseScaledRadius

(***************************************************************************)
(* The catalog's functions                                                 *)
(***************************************************************************)
TypeError == [t |-> "TypeError"]
IsThrown(r) == r = TypeError

\* calculateHeliocentricPosition(bodyData) at the clock's date `now`; with
\* bodyData undefined, reading its semiMajorAxis throws
calculateCurrentPosition(bodyData, now) ==
  IF bodyData = Undefined THEN TypeError
  ELSE calculateHeliocentricPosition(bodyData, now)

\* the product with the fractional limb of the axis dropped
ScaleAxisWhole(a, distanceScale) == <<a[1] * distanceScale, a[2]>>

\* data.semiMajorAxis * distanceScale, in whole units and 1e-8 units
ScaleAxis(a, distanceScale) ==
  LET low == (a[2] % Limb) * distanceScale
      high == (a[2] \div Limb) * distanceScale + (low \div Limb)
  IN <<a[1] * distanceScale + (high \div Limb),
       (high % Limb) * Limb + (low % Limb)>>

\* the reference of the object `scaledData` of a call in progress
ScaledDataRef == "scaledData"

\* const scaledData = { ...data }: a new object with the fields of data
Spread(objects, data) ==
  [ref \in DOMAIN objects \cup {ScaledDataRef} |->
     IF ref = ScaledDataRef THEN objects[data] ELSE objects[ref]]

\* scaledData names the catalog entry itself
SpreadByReference(objects, data) == data

\* the object scaledData names after the spread
SpreadCopy(objects, data) == ScaledDataRef

\* object.field = value
Write(objects, ref, field, value) ==
  [objects EXCEPT ![ref] =
     [f \in DOMAIN @ \cup {field} |-> IF f = field THEN value ELSE @[f]]]

glowIntensity == 2             \* ARTISTIC_MODIFICATIONS.glowIntensity

\* Math.min(255, Math.floor(channel * 1.2))
EnhanceChannel(channel) == Min(255, (channel * 12) \div 10)

\* enhanceColor(color)
enhanceColor(color) ==
  EnhanceChannel((color \div 65536) % 256) * 65536
    + EnhanceChannel((color \div 256) % 256) * 256
    + EnhanceChannel(color % 256)

\* the scaled radius assigned to the catalog entry: data.radius = ...
WriteRadiusToData(objects, data, scaledData, bodyName, mode) ==
  Write(objects, data, "radius",
        calculateScaledRadius(objects[data].radius, bodyName,
                              getScalingConfig(mode), mode))

\* scaledData.radius = calculateScaledRadius(data.radius, ...)
WriteRadius(objects, data, scaledData, bodyName, mode) ==
  Write(objects, scaledData, "radius",
        calculateScaledRadius(objects[data].radius, bodyName,
                              getScalingConfig(mode), mode))

\* scaledData.semiMajorAxis = data.semiMajorAxis * scaling.distanceScale
WriteSemiMajorAxis(objects, data, scaledData, mode) ==
  Write(objects, scaledData, "semiMajorAxis",
        ScaleAxis(objects[data].semiMajorAxis,
                  getScalingConfig(mode).distanceScale))

\* the visual enhancements of the mode
WriteEnhancements(objects, data, scaledData, mode) ==
  IF mode = "artistic"
  THEN CHOOSE written \in
         {Write(intensified, scaledData, "color",
                enhanceColor(intensified[data].color)) :
            intensified \in
              {Write(objects, scaledData, "emissiveIntensity",
                     objects[data].emissiveIntensity * glowIntensity)}} : TRUE
  ELSE Write(objects, scaledData, "emissiveIntensity",
             objects[data].emissiveIntensity)

\* the assignments to scaledData in their order
ScaledDataWrites(objects, data, scaledData, bodyName, mode, currentPos) ==
  CHOOSE written \in
    {WriteEnhancements(scaled, data, scaledData, mode) :
       scaled \in
         {WriteSemiMajorAxis(sized, data, scaledData, mode) :
            sized \in
              {WriteRadius(positioned, data, scaledData, bodyName, mode) :
                 positioned \in
                   {Write(objects, scaledData, "currentPosition",
                          currentPos)}}}} : TRUE

\* what a call leaves: the catalog's objects and the returned object
ScaledDataReturn(objects, scaledData) ==
  [objects |-> [n \in BodyNames |-> objects[n]],
   result |-> objects[scaledData]]

\* getScaledData(bodyName, mode) on the catalog's objects, with the clock
\* at `now`
getScaledData(objects, bodyName, mode, now) ==
  IF bodyName \notin DOMAIN objects THEN [objects |-> objects, result |-> Null]
  ELSE CHOOSE return \in
         {ScaledDataReturn(written, SpreadCopy(objects, bodyName)) :
            written \in
              {ScaledDataWrites(Spread(objects, bodyName), bodyName,
                                SpreadCopy(objects, bodyName), bodyName, mode,
                                currentPos) :
                 currentPos \in
                   {calculateCurrentPosition(objects[bodyName], now)}}} :
         TRUE

\* Math.sqrt(dx * dx + dy * dy + dz * dz) of AuScale-d numbers, from the
\* quartered components
Hypot(dx, dy, dz) ==
  IF ~(IsNum(dx) /\ IsNum(dy) /\ IsNum(dz)) THEN NaN
  ELSE LET qx == RoundDiv(dx.v, 4)
           qy == RoundDiv(dy.v, 4)
           qz == RoundDiv(dz.v, 4)
       IN Num(4 * Sqrt(Mul(qx, qx) + Mul(qy, qy) + Mul(qz, qz)))

\* getCurrentMeanAnomaly(bodyData)
getCurrentMeanAnomaly(bodyData, now) ==
  calculateAstronomicalInfo("temp", bodyData, now).meanAnomaly

CatalogInfoOf(bodyName, data, currentPos, currentMeanAnomaly) ==
  [name |-> bodyName, radius |-> data.radius,
   semiMajorAxis |-> data.semiMajorAxis,
   orbitalPeriod |-> data.orbitalPeriod,
   eccentricity |-> data.eccentricity,
   inclination |-> data.inclination,
   currentDistanceFromSun |->
     Hypot(currentPos.x, currentPos.y, currentPos.z),
   currentMeanAnomaly |-> currentMeanAnomaly,
   currentPosition |-> currentPos]

getAstronomicalInfo(bodyName, now) ==
  IF Lookup(bodyName) = Undefined THEN Null
  ELSE CHOOSE info \in
         {CatalogInfoOf(bodyName, Lookup(bodyName), currentPos,
                        currentMeanAnomaly) :
            currentPos \in {calculateCurrentPosition(Lookup(bodyName), now)},
            currentMeanAnomaly \in
              {getCurrentMeanAnomaly(Lookup(bodyName), now)}} : TRUE

\* the distance of two computed positions
DistanceOf(pos1, pos2) ==
  Hypot(JsSub(pos1.x, pos2.x), JsSub(pos1.y, pos2.y), JsSub(pos1.z, pos2.z))

\* the first position that cannot be computed throws, and the call with it
getDistanceBetweenBodies(bodyName1, bodyName2, now) ==
  IF Lookup(bodyName1) = Undefined \/ Lookup(bodyName2) = Undefined
  THEN CHOOSE thrown \in
         {calculateCurrentPosition(Undefined, now)} : TRUE
  ELSE CHOOSE distance \in
         {DistanceOf(pos1, pos2) :
            pos1 \in {calculateCurrentPosition(Lookup(bodyName1), now)},
            pos2 \in {calculateCurrentPosition(Lookup(bodyName2), now)}} : TRUE

(***************************************************************************)
(* Calls of the pure functions: one call at a time, on inputs from         *)
(* bounded sets; the caller takes the result before the next call          *)
(***************************************************************************)
CallIdle == [op |-> "none"]

DateStep == 123457             \* 123.457 days
MaxDateSteps == 10
\* evaluation dates (and clock readings) before and after the J2000 epoch
Dates == {J2000Date + k * DateStep : k \in -MaxDateSteps..MaxDateSteps}

\* element combinations whose raw difference is negative or exceeds 360
SyntheticElements ==
  {[orbitalPeriod |-> p, meanLongitude |-> l, longitudeOfPerihelion |-> w] :
     p \in {100 * DayScale, 365256},
     l \in {-270 * DegScale, 0, 450 * DegScale},
     w \in {0, 90 * DegScale, 360 * DegScale}}

ElementSets == {SOLAR_SYSTEM_DATA[n] : n \in PlanetNames} \cup SyntheticElements

CallReturn ==
  /\ call # CallIdle
  /\ call' = CallIdle
  /\ UNCHANGED <<kepler, sceneManager, orbitLine, catalog, app>>

MeanAnomalyCall ==
  /\ call = CallIdle
  /\ \E el \in ElementSets, date \in Dates :
       call' = [op |-> "calculateMeanAnomaly", orbitalElements |-> el,
                date |-> date, result |-> calculateMeanAnomaly(el, date)]
  /\ UNCHANGED <<kepler, sceneManager, orbitLine, catalog, app>>

HeliocentricPositionCall ==
  /\ call = CallIdle
  /\ \E bodyName \in BodyNames, date \in Dates :
       call' = [op |-> "calculateHeliocentricPosition",
                bodyName |-> bodyName, date |-> date,
                solver |-> RunsSolver(catalog[bodyName]),
                result |-> calculateHeliocentricPosition(catalog[bodyName],
                                                         date)]
  /\ UNCHANGED <<kepler, sceneManager, orbitLine, catalog, app>>

\* distances handed to calculateOrbitalVelocity: position.distance of a
\* position without that field, zero, and distances in AU
Distances ==
  {Undefined, Num(0), Num(AuScale \div 2), Num(AuScale), Num(30 * AuScale)}

OrbitalVelocityCall ==
  /\ call = CallIdle
  /\ \E bodyName \in DOMAIN SOLAR_SYSTEM_DATA, currentDistance \in Distances :
       call' = [op |-> "calculateOrbitalVelocity", bodyName |-> bodyName,
                currentDistance |-> currentDistance,
                result |-> calculateOrbitalVelocity(SOLAR_SYSTEM_DATA[bodyName],
                                                    currentDistance)]
  /\ UNCHANGED <<kepler, sceneManager, orbitLine, catalog, app>>

AstronomicalInfoCall ==
  /\ call = CallIdle
  /\ \E bodyName \in BodyNames, date \in Dates :
       call' = [op |-> "calculateAstronomicalInfo", bodyName |-> bodyName,
                date |-> date, solver |-> RunsSolver(Lookup(bodyName)),
                result |-> calculateAstronomicalInfo(bodyName,
                                                     Lookup(bodyName), date)]
  /\ UNCHANGED <<kepler, sceneManager, orbitLine, catalog, app>>

\* names asked of the catalog: its bodies and names it does not hold
UnknownNames == {"pluto"}
RequestedNames == BodyNames \cup UnknownNames
Modes == {"realistic", "exploration", "artistic", "cinematic"}

GetScaledDataCall ==
  /\ call = CallIdle
  /\ \E bodyName \in RequestedNames, mode \in Modes, now \in Dates :
     \E return \in {getScaledData(catalog, bodyName, mode, now)} :
       /\ call' = [op |-> "getScaledData", names |-> <<bodyName>>,
                   mode |-> mode, now |-> now, result |-> return.result]
       /\ catalog' = return.objects
  /\ UNCHANGED <<kepler, sceneManager, orbitLine, app>>

GetAstronomicalInfoCall ==
  /\ call = CallIdle
  /\ \E bodyName \in RequestedNames, now \in Dates :
       call' = [op |-> "getAstronomicalInfo", names |-> <<bodyName>>,
                now |-> now, result |-> getAstronomicalInfo(bodyName, now)]
  /\ UNCHANGED <<kepler, sceneManager, orbitLine, catalog, app>>

GetDistanceBetweenBodiesCall ==
  /\ call = CallIdle
  /\ \E bodyName1 \in RequestedNames, bodyName2 \in RequestedNames,
        now \in Dates :
       call' = [op |-> "getDistanceBetweenBodies",
                names |-> <<bodyName1, bodyName2>>, now |-> now,
                result |-> getDistanceBetweenBodies(bodyName1, bodyName2, now)]
  /\ UNCHANGED <<kepler, sceneManager, orbitLine, catalog, app>>

RadiusStep == 2500             \* 250 km
MaxRadiusSteps == 25
\* physical radii in KmScale units: the catalog's, a grid of small ones
\* and the smallest representable
Radii ==
  {Lookup(n).radius : n \in BodyNames \ {"sun"}}
    \cup {k * RadiusStep : k \in 1..MaxRadiusSteps} \cup {1}

\* the Sun's own radius is scaled only as the Sun's
RadiiOf(bodyName) ==
  IF bodyName = "sun" THEN Radii \cup {SOLAR_SYSTEM_DATA.sun.radius} ELSE Radii

CalculateScaledRadiusCall ==
  /\ call = CallIdle
  /\ \E bodyName \in {"sun", "earth", "moon"}, mode \in Modes :
     \E originalRadius \in RadiiOf(bodyName) :
       call' = [op |-> "calculateScaledRadius",
                originalRadius |-> originalRadius, bodyName |-> bodyName,
                mode |-> mode,
                result |-> calculateScaledRadius(originalRadius, bodyName,
                                                 getScalingConfig(mode), mode)]
  /\ UNCHANGED <<kepler, sceneManager, orbitLine, catalog, app>>

(***************************************************************************)
(* SceneManager: loadSolarSystem, setVisualizationMode, reloadSolarSystem. *)
(* The asynchronous methods run to their next await in one step; the       *)
(* calls in progress wait in sceneManager.pending.                         *)
(***************************************************************************)
MaxLoads == 5                  \* runs of loadSolarSystem
MaxPending == 2                \* asynchronous calls in progress at a time

\* TelescopeSystem: zoom levels in thousandths
minZoom == 1000
maxZoom == 1000000

\* new TelescopeSystem(camera, scene)
TelescopeConstructed ==
  [isTelescopeMode |-> FALSE, zoomLevel |-> minZoom, isTracking |-> FALSE]

\* TelescopeSystem.exitTelescopeMode(): the zoom is reset, tracking stops
exitTelescopeMode(ts) ==
  [ts EXCEPT !.zoomLevel = minZoom, !.isTracking = FALSE]

\* TelescopeSystem.toggleTelescopeMode(); entering leaves zoom and tracking
TelescopeSystemToggle(ts) ==
  IF ts.isTelescopeMode
  THEN exitTelescopeMode([ts EXCEPT !.isTelescopeMode = FALSE])
  ELSE [ts EXCEPT !.isTelescopeMode = TRUE]

\* the state the constructor leaves: no body, mode 'exploration', no
\* telescope system (sm.telescope is read only while sm.telescopeSystem)
SceneManagerConstructed ==
  [currentMode |-> "exploration", celestialBodies |-> {}, scene |-> {},
   telescopeSystem |-> FALSE, telescope |-> TelescopeConstructed,
   loads |-> 0, loaded |-> FALSE, pending |-> << >>]

\* new CelestialBody(bodyName, getScaledData(bodyName, mode)): the scaled
\* radius and semiMajorAxis of the configuration, the constructor's own
\* currentMode, and no orbit line before create() has run
NewCelestialBody(bodyName, mode, load) ==
  [name |-> bodyName, load |-> load, mode |-> mode,
   radius |-> calculateScaledRadius(Lookup(bodyName).radius, bodyName,
                                    getScalingConfig(mode), mode),
   semiMajorAxis |-> ScaleAxis(Lookup(bodyName).semiMajorAxis,
                               getScalingConfig(mode).distanceScale),
   currentMode |-> "realistic", line |-> 0, levelOfDetail |-> "medium"]

\* body.getObject3D() as an object of the scene
BodyObject3D(body) ==
  [kind |-> "body", name |-> body.name, load |-> body.load, line |-> 0]

\* orbitLine.getObject3D() as an object of the scene: the line-th
\* THREE.Line the orbit line of the body has built
OrbitLineObject3D(body) ==
  [kind |-> "orbitLine", name |-> body.name, load |-> body.load,
   line |-> body.line]

\* orbitLine && orbitLine.getObject3D()
HasOrbitLine(body) == body.line # 0

\* createOrbitLine at the end of create(): none for the sun or a zero axis
createOrbitLine(body) ==
  IF body.name = "sun" \/ AuIsZero(body.semiMajorAxis) THEN body
  ELSE [body EXCEPT !.line = 1]

\* OrbitLine.recreate of the body's orbit line: a new THREE.Line
BodyLineRecreate(body) == [body EXCEPT !.line = body.line + 1]

\* OrbitLine.setLevelOfDetail of the body's orbit line
BodyLineSetLevelOfDetail(body, lod) ==
  IF lod # body.levelOfDetail
  THEN BodyLineRecreate([body EXCEPT !.levelOfDetail = lod])
  ELSE body

\* CelestialBody.updateOrbitLine(mode)
updateOrbitLine(body, mode) ==
  IF ~HasOrbitLine(body) THEN body
  ELSE BodyLineSetLevelOfDetail(body,
         CASE mode = "realistic" -> "low"
           [] mode = "exploration" -> "medium"
           [] mode = "artistic" -> "high"
           [] OTHER -> "medium")

\* CelestialBody.setMode(mode); the mesh and the orbit line exist together
setMode(body, mode) ==
  updateOrbitLine([body EXCEPT !.currentMode = mode], mode)

\* orbitalElements.semiMajorAxis > 10 on the body's (scaled) axis
BeyondTen(a) == a[1] > 10 \/ (a[1] = 10 /\ a[2] > 0)

\* SceneManager.optimizeOrbitLinesForMode(mode) on one body
optimizeOrbitLinesForMode(body, mode) ==
  IF ~HasOrbitLine(body) THEN body
  ELSE CASE mode = "realistic" ->
              IF BeyondTen(body.semiMajorAxis)
              THEN BodyLineRecreate([body EXCEPT !.levelOfDetail = "low"])
              ELSE body
         [] mode = "exploration" -> BodyLineSetLevelOfDetail(body, "medium")
         [] mode = "artistic" ->
              BodyLineRecreate([body EXCEPT !.levelOfDetail = "high"])
         [] OTHER -> body

\* loadSolarSystem up to its await: the map is cleared and a body of the
\* current mode is stored and added to the scene for every name
loadSolarSystem(sm) ==
  [sm EXCEPT
     !.loads = sm.loads + 1,
     !.celestialBodies =
        {NewCelestialBody(bodyName, sm.currentMode, sm.loads + 1) :
           bodyName \in BodyNames},
     !.scene = sm.scene \cup
        {BodyObject3D(NewCelestialBody(bodyName, sm.currentMode,
                                       sm.loads + 1)) :
           bodyName \in BodyNames}]

\* reloadSolarSystem up to the await of loadSolarSystem: every body of the
\* map and its orbit line leave the scene, then the system is loaded
reloadSolarSystem(sm) ==
  loadSolarSystem(
    [sm EXCEPT !.scene = sm.scene
       \ ({OrbitLineObject3D(body) :
             body \in {b \in sm.celestialBodies : HasOrbitLine(b)}}
          \cup {BodyObject3D(body) : body \in sm.celestialBodies})])

\* addOrbitLinesToScene
addOrbitLinesToScene(sm) ==
  [sm EXCEPT !.scene = sm.scene \cup
     {OrbitLineObject3D(body) :
        body \in {b \in sm.celestialBodies : HasOrbitLine(b)}}]

\* the sequence without its i-th element
RemoveAt(seq, i) ==
  [k \in 1..(Len(seq) - 1) |-> IF k < i THEN seq[k] ELSE seq[k + 1]]

RecognisedModes == {"realistic", "exploration", "artistic"}

\* the default branch with the assignment left out
KeepUnknownMode(sm, previousMode) == sm

\* the default branch: this.currentMode = previousMode
RestoreMode(sm, previousMode) == [sm EXCEPT !.currentMode = previousMode]

\* the branches that leave the telescope on
KeepTelescope(sm, mode) == sm

\* the 'exploration' and 'artistic' branches: disable telescope if active
DisableTelescope(sm, mode) ==
  IF mode # "realistic" /\ sm.telescopeSystem /\ sm.telescope.isTelescopeMode
  THEN [sm EXCEPT !.telescope = TelescopeSystemToggle(sm.telescope)]
  ELSE sm

\* setVisualizationMode(mode) up to its first await or its return
setVisualizationMode(sm, mode) ==
  IF mode = sm.currentMode THEN sm
  ELSE IF mode \notin RecognisedModes
  THEN RestoreMode([sm EXCEPT !.currentMode = mode], sm.currentMode)
  ELSE IF mode = "realistic" /\ ~sm.telescopeSystem
  THEN [sm EXCEPT !.currentMode = mode,
                  !.pending = Append(sm.pending,
                     [op |-> "setVisualizationMode", mode |-> mode,
                      pc |-> "import", load |-> 0])]
  ELSE [reloadSolarSystem(
          DisableTelescope([sm EXCEPT !.currentMode = mode], mode)) EXCEPT
          !.pending = Append(sm.pending,
             [op |-> "setVisualizationMode", mode |-> mode,
              pc |-> "loading", load |-> sm.loads + 1])]

\* main.js: the first loadSolarSystem, before the interface exists
LoadSolarSystemCall ==
  /\ sceneManager.loads = 0
  /\ sceneManager' =
       [loadSolarSystem(sceneManager) EXCEPT
          !.pending = Append(sceneManager.pending,
             [op |-> "loadSolarSystem", mode |-> sceneManager.currentMode,
              pc |-> "loading", load |-> 1])]
  /\ UNCHANGED <<kepler, call, orbitLine, catalog, app>>

SetVisualizationModeCall ==
  /\ sceneManager.loaded
  /\ Len(sceneManager.pending) < MaxPending
  /\ sceneManager.loads < MaxLoads
  /\ \E mode \in Modes :
       sceneManager' = setVisualizationMode(sceneManager, mode)
  /\ UNCHANGED <<kepler, call, orbitLine, catalog, app>>

\* the import of the realistic branch has resolved: a telescope system is
\* created (in place of one created meanwhile) and the system is reloaded
\* with the mode then current
ImportResume ==
  /\ sceneManager.loads < MaxLoads
  /\ \E i \in DOMAIN sceneManager.pending :
       /\ sceneManager.pending[i].pc = "import"
       /\ sceneManager' =
            [reloadSolarSystem([sceneManager EXCEPT
                                  !.telescopeSystem = TRUE,
                                  !.telescope = TelescopeConstructed])
               EXCEPT !.pending[i] =
                  [sceneManager.pending[i] EXCEPT
                     !.pc = "loading", !.load = sceneManager.loads + 1]]
  /\ UNCHANGED <<kepler, call, orbitLine, catalog, app>>

\* the create() promises of one load have resolved; the bodies of a load
\* finish together and get their orbit lines
BodiesCreated ==
  /\ \E i \in DOMAIN sceneManager.pending :
       /\ sceneManager.pending[i].pc = "loading"
       /\ sceneManager' =
            [sceneManager EXCEPT
               !.pending[i].pc = "created",
               !.celestialBodies =
                  {IF body.load = sceneManager.pending[i].load
                   THEN createOrbitLine(body) ELSE body :
                     body \in sceneManager.celestialBodies}]
  /\ UNCHANGED <<kepler, call, orbitLine, catalog, app>>

\* the rest of a call after await Promise.all: the orbit lines of the map
\* enter the scene; setVisualizationMode then sets its own mode on every
\* body of the map and optimizes the orbit lines for it
LoadResumed(sm, task) ==
  IF task.op = "loadSolarSystem"
  THEN [addOrbitLinesToScene(sm) EXCEPT !.loaded = TRUE]
  ELSE [addOrbitLinesToScene(sm) EXCEPT
          !.celestialBodies =
             {optimizeOrbitLinesForMode(setMode(body, task.mode), task.mode) :
                body \in sm.celestialBodies}]

LoadResume ==
  /\ \E i \in DOMAIN sceneManager.pending :
       /\ sceneManager.pending[i].pc = "created"
       /\ sceneManager' =
            [LoadResumed(sceneManager, sceneManager.pending[i]) EXCEPT
               !.pending = RemoveAt(sceneManager.pending, i)]
  /\ UNCHANGED <<kepler, call, orbitLine, catalog, app>>

(***************************************************************************)
(* The telescope keys: T, + and -, and the search for the nearest planet   *)
(***************************************************************************)
MaxZoom == 2                   \* zoom in up to this magnification

\* SceneManager.toggleTelescopeMode(): refused outside 'realistic' and
\* before the telescope system exists
toggleTelescopeMode(sm) ==
  IF sm.currentMode # "realistic" \/ ~sm.telescopeSystem THEN sm
  ELSE [sm EXCEPT !.telescope = TelescopeSystemToggle(sm.telescope)]

ToggleTelescopeModeCall ==
  /\ sceneManager' = toggleTelescopeMode(sceneManager)
  /\ UNCHANGED <<kepler, call, orbitLine, catalog, app>>

\* zoomIn(): zoomLevel * zoomStep up to maxZoom, only in telescope mode
zoomIn(ts) ==
  IF ~ts.isTelescopeMode THEN ts
  ELSE [ts EXCEPT !.zoomLevel =
          IF (ts.zoomLevel * 3) \div 2 > maxZoom THEN maxZoom
          ELSE (ts.zoomLevel * 3) \div 2]

\* zoomOut(): zoomLevel / zoomStep down to minZoom, only in telescope mode
zoomOut(ts) ==
  IF ~ts.isTelescopeMode THEN ts
  ELSE [ts EXCEPT !.zoomLevel =
          IF (ts.zoomLevel * 2) \div 3 < minZoom THEN minZoom
          ELSE (ts.zoomLevel * 2) \div 3]

\* findNearestPlanet(): tracks a planet of the scene, only in telescope mode
findNearestPlanet(sm) ==
  IF ~sm.telescope.isTelescopeMode
       \/ ~\E object \in sm.scene : object.kind = "body" /\ object.name # "sun"
  THEN sm
  ELSE [sm EXCEPT !.telescope.isTracking = TRUE]

ZoomInCall ==
  /\ sceneManager.telescopeSystem
  /\ sceneManager.telescope.zoomLevel <= MaxZoom * minZoom
  /\ sceneManager' =
       [sceneManager EXCEPT !.telescope = zoomIn(sceneManager.telescope)]
  /\ UNCHANGED <<kepler, call, orbitLine, catalog, app>>

ZoomOutCall ==
  /\ sceneManager.telescopeSystem
  /\ sceneManager' =
       [sceneManager EXCEPT !.telescope = zoomOut(sceneManager.telescope)]
  /\ UNCHANGED <<kepler, call, orbitLine, catalog, app>>

FindNearestPlanetCall ==
  /\ sceneManager.telescopeSystem
  /\ sceneManager' = findNearestPlanet(sceneManager)
  /\ UNCHANGED <<kepler, call, orbitLine, catalog, app>>

(***************************************************************************)
(* SceneManager.update: the orbit lines follow the camera distance         *)
(***************************************************************************)
MaxLines == 3                  \* THREE.Line objects built per orbit line

\* OrbitLine.updateLevelOfDetail: the level of a distance from the origin
NewLOD(distanceToCenter) ==
  IF distanceToCenter > 1000 THEN "low"
  ELSE IF distanceToCenter > 100 THEN "medium"
  ELSE "high"

\* updateOrbitLinesPerformance(): every orbit line (all are visible) takes
\* the level of the camera's distance
updateOrbitLinesPerformance(sm, distanceToCenter) ==
  [sm EXCEPT !.celestialBodies =
     {IF HasOrbitLine(body)
      THEN BodyLineSetLevelOfDetail(body, NewLOD(distanceToCenter))
      ELSE body : body \in sm.celestialBodies}]

\* a frame of the animation loop with the camera near, further or far
FrameUpdate ==
  /\ sceneManager.loaded
  /\ \A body \in sceneManager.celestialBodies : body.line < MaxLines
  /\ \E distanceToCenter \in {50, 500, 5000} :
       sceneManager' =
         updateOrbitLinesPerformance(sceneManager, distanceToCenter)
  /\ UNCHANGED <<kepler, call, orbitLine, catalog, app>>

(***************************************************************************)
(* SolarSystemApp: the animation loop, NavigationControls and              *)
(* PlanetTravelSystem. The camera is followed along the z axis, on which   *)
(* it starts and looks; positions are in thousandths of a scene unit,      *)
(* velocities in whole units per second, times in half seconds.            *)
(***************************************************************************)
PositionScale == 1000
HalfSecond == 500              \* a half second of movement, per unit/s
moveSpeed == 10
transitionDuration == 6        \* 3.0 s
MaxScheduled == 2              \* requested animation frames at a time
MaxKeys == 1                   \* presses of the forward key
MaxTimers == 2                 \* resume timers at a time
MaxExcursion == 2000            \* frames run while the camera is this near
                               \* its first position

\* new NavigationControls, new PlanetTravelSystem, the camera of
\* createCamera at (0, 0, 50), and what a caller of travelTo has seen:
\* the outcome of the last call, the value its promise resolved with, the
\* position then, and whether the camera was left alone since
AppConstructed ==
  [pc |-> "constructed", isInitialized |-> FALSE, isRunning |-> FALSE,
   hidden |-> FALSE, scheduled |-> 0, camera |-> 50 * PositionScale,
   nav |-> [isPaused |-> FALSE, forward |-> FALSE, velocity |-> 0],
   travel |-> [isTransitioning |-> FALSE, currentTarget |-> "null",
               startPosition |-> 0, targetPosition |-> 0,
               currentTransitionTime |-> 0, travelSpeed |-> 1,
               transitionResolve |-> FALSE],
   timers |-> 0, keys |-> 0,
   returned |-> "none", resolved |-> "none", afterPosition |-> 0,
   atRest |-> FALSE]

\* velocity.lerp(targetVelocity, dampingFactor) on whole units per second:
\* a tenth of the difference, at least one unit while they differ
Damped(velocity, targetVelocity) ==
  IF velocity = targetVelocity THEN velocity
  ELSE velocity + Sgn(targetVelocity - velocity)
         * Max(1, Abs(targetVelocity - velocity) \div 10)

\* NavigationControls.update(deltaTime): nothing while paused; forward is
\* towards smaller z
NavigationUpdate(a, deltaTime) ==
  IF a.nav.isPaused THEN a
  ELSE LET velocity ==
             Damped(a.nav.velocity,
                    IF a.nav.forward THEN -moveSpeed ELSE 0)
       IN [a EXCEPT !.nav.velocity = velocity,
                    !.camera = a.camera + velocity * deltaTime * HalfSecond]

\* completeTransition() but for resetVelocity(): the camera takes the
\* target position, a timer of 200 ms is set to resume the controls, the
\* promise resolves with the target, whose caller then reads the camera
completeTransitionKeepVelocity(a) ==
  [a EXCEPT !.travel.isTransitioning = FALSE,
            !.travel.transitionResolve = FALSE,
            !.travel.currentTarget = "null",
            !.camera = a.travel.targetPosition,
            !.timers = a.timers + 1,
            !.resolved = IF a.travel.transitionResolve
                         THEN a.travel.currentTarget ELSE a.resolved,
            !.afterPosition = a.travel.targetPosition,
            !.atRest = ~a.nav.forward]

\* completeTransition()
completeTransition(a) ==
  [completeTransitionKeepVelocity(a) EXCEPT !.nav.velocity = 0]

\* easeInOutCubic on thousandths
easeInOutCubic(t) ==
  IF t < 500 THEN (4 * t * t * t) \div 1000000
  ELSE 1000 - ((2000 - 2 * t) * (2000 - 2 * t) * (2000 - 2 * t)) \div 2000000

\* PlanetTravelSystem.update(deltaTime)
TravelUpdate(a, deltaTime) ==
  IF ~a.travel.isTransitioning THEN a
  ELSE LET time == a.travel.currentTransitionTime
                     + deltaTime * a.travel.travelSpeed
           duration == transitionDuration \div a.travel.travelSpeed
           progress == Min((time * 1000) \div duration, 1000)
           moved == [a EXCEPT
                       !.travel.currentTransitionTime = time,
                       !.camera = a.travel.startPosition
                          + ((a.travel.targetPosition - a.travel.startPosition)
                               * easeInOutCubic(progress)) \div 1000]
       IN IF progress >= 1000 THEN completeTransition(moved) ELSE moved

\* calculateTargetPosition: the z of the body's position plus that of the
\* offset, distance * sin(pi / 8) with distance = max(2.5 radius, 1)
calculateTargetPosition(targetBody, bodyPosition) ==
  bodyPosition
    + (Max((5 * (targetBody.radius \div (Scale \div PositionScale))) \div 2,
           PositionScale) * 383) \div 1000

\* a travelTo that starts a second transition over the running one
travelToAlways(a, sm, bodyName, speed, bodyPosition) ==
  IF ~\E body \in sm.celestialBodies : body.name = bodyName
  THEN [a EXCEPT !.returned = "false"]
  ELSE LET targetBody ==
             CHOOSE body \in sm.celestialBodies : body.name = bodyName
       IN [a EXCEPT
             !.nav.isPaused = TRUE,
             !.travel = [isTransitioning |-> TRUE,
                         currentTarget |-> bodyName,
                         startPosition |-> a.camera,
                         targetPosition |->
                           calculateTargetPosition(targetBody, bodyPosition),
                         currentTransitionTime |-> 0,
                         travelSpeed |-> speed,
                         transitionResolve |-> TRUE],
             !.returned = "promise", !.atRest = FALSE]

\* PlanetTravelSystem.travelTo(bodyName, speed) with the body, if the map
\* holds it, at bodyPosition
travelTo(a, sm, bodyName, speed, bodyPosition) ==
  IF a.travel.isTransitioning THEN [a EXCEPT !.returned = "false"]
  ELSE travelToAlways(a, sm, bodyName, speed, bodyPosition)

\* animate(): the next frame is requested, then the controls, the travel
\* system and the orbit lines are updated
animate(a, deltaTime) ==
  IF ~a.isRunning THEN a
  ELSE TravelUpdate(
         NavigationUpdate([a EXCEPT !.scheduled = a.scheduled + 1],
                          deltaTime),
         deltaTime)

\* SceneManager.update after the travel system: the orbit lines take the
\* level of the camera's distance from the origin
SceneUpdate(sm, a) ==
  IF a.isRunning /\ sm.loaded
  THEN updateOrbitLinesPerformance(sm, Abs(a.camera) \div PositionScale)
  ELSE sm

\* resume()
resume(a) ==
  IF a.isInitialized /\ ~a.isRunning
  THEN animate([a EXCEPT !.isRunning = TRUE], 0)
  ELSE a

\* init() up to await loadingManager.hide(): the systems exist, the
\* solar system is loaded, the listeners are set
InitApp ==
  /\ app.pc = "constructed"
  /\ sceneManager.loaded
  /\ app' = [app EXCEPT !.pc = "hiding", !.isInitialized = TRUE]
  /\ UNCHANGED <<kepler, call, sceneManager, orbitLine, catalog>>

\* the rest of init(): start()
StartApp ==
  /\ app.pc = "hiding"
  /\ app.scheduled < MaxScheduled
  /\ app' = animate([app EXCEPT !.pc = "started", !.isRunning = TRUE], 0)
  /\ sceneManager' = SceneUpdate(sceneManager, app')
  /\ UNCHANGED <<kepler, call, orbitLine, catalog>>

\* onVisibilityChange(): pause() when the tab is hidden, resume() when shown
VisibilityChange ==
  /\ app.isInitialized
  /\ app.scheduled < MaxScheduled
  /\ app' = IF ~app.hidden
            THEN [app EXCEPT !.hidden = TRUE, !.isRunning = FALSE]
            ELSE resume([app EXCEPT !.hidden = FALSE])
  /\ sceneManager' =
       IF app.hidden /\ ~app.isRunning THEN SceneUpdate(sceneManager, app')
       ELSE sceneManager
  /\ UNCHANGED <<kepler, call, orbitLine, catalog>>

\* a requested animation frame: the callback animate runs
AnimationFrame ==
  /\ app.scheduled > 0
  /\ Abs(app.camera - AppConstructed.camera) <= MaxExcursion
  /\ \E deltaTime \in {1, 2} :
       app' = animate([app EXCEPT !.scheduled = app.scheduled - 1], deltaTime)
  /\ sceneManager' = SceneUpdate(sceneManager, app')
  /\ UNCHANGED <<kepler, call, orbitLine, catalog>>

\* onKeyDown / onKeyUp of KeyW
KeyDown ==
  /\ app.isInitialized
  /\ ~app.nav.forward
  /\ app.keys < MaxKeys
  /\ app' = [app EXCEPT !.nav.forward = TRUE, !.keys = app.keys + 1,
                        !.atRest = FALSE]
  /\ UNCHANGED <<kepler, call, sceneManager, orbitLine, catalog>>

KeyUp ==
  /\ app.nav.forward
  /\ app' = [app EXCEPT !.nav.forward = FALSE]
  /\ UNCHANGED <<kepler, call, sceneManager, orbitLine, catalog>>

\* names asked of the travel system, speeds, and z positions of a body
TravelNames == {"earth", "jupiter", "pluto"}
Speeds == {1, 2}
BodyPositions == {48 * PositionScale}

\* SceneManager.travelTo(bodyName, speed)
TravelToCall ==
  /\ app.isInitialized
  /\ app.timers < MaxTimers
  /\ \E bodyName \in TravelNames, speed \in Speeds,
        bodyPosition \in BodyPositions :
       app' = travelTo(app, sceneManager, bodyName, speed, bodyPosition)
  /\ UNCHANGED <<kepler, call, sceneManager, orbitLine, catalog>>

\* the timer of completeTransition: setPaused(false)
ResumeTimer ==
  /\ app.timers > 0
  /\ app' = [app EXCEPT !.timers = app.timers - 1, !.nav.isPaused = FALSE]
  /\ UNCHANGED <<kepler, call, sceneManager, orbitLine, catalog>>

(***************************************************************************)
(* OrbitLine                                                               *)
(***************************************************************************)
\* segment counts are kept in quarters, so that this.segments / 4 and
\* this.segments / 2 are whole numbers of them
Quarter == 4
MaxSegments == 512

\* floor(base * (1 + eccentricity)) for a base in quarters, in quarters
FloorEnhanced(base, eccentricity) ==
  Quarter * ((base * (10000 + eccentricity \div 10000)
                + (base * (eccentricity % 10000)) \div 10000)
             \div (Quarter * 10000))

\* the base count of the level of detail, in quarters
BaseSegments(segments, levelOfDetail) ==
  CASE levelOfDetail = "low" -> Max(32 * Quarter, segments)
    [] levelOfDetail = "medium" -> Max(64 * Quarter, 2 * segments)
    [] OTHER -> Quarter * segments

\* the eccentricity test with the enhancement applied to every orbit
IsHighlyEccentricAlways(eccentricity) == TRUE

\* this.orbitalElements.eccentricity > 0.1
IsHighlyEccentric(eccentricity) == eccentricity > Scale \div 10

\* getSegmentCount(), in quarters
getSegmentCount(line) ==
  CHOOSE count \in
    {Min(IF IsHighlyEccentric(line.orbitalElements.eccentricity)
         THEN FloorEnhanced(baseSegments, line.orbitalElements.eccentricity)
         ELSE baseSegments,
         MaxSegments * Quarter) :
       baseSegments \in {BaseSegments(line.segments, line.levelOfDetail)}} :
    TRUE

\* half the angle: the points cover half a turn of mean anomaly only
SegmentAnomalyHalfTurn(i, segments) ==
  RoundDiv(Div(Quarter * i, segments) * 9, 50)

\* (i / segments) * 360, in degrees
SegmentAnomaly(i, segments) == RoundDiv(Div(Quarter * i, segments) * 9, 25)

\* a coordinate times this.scaleFactor
Scaled(coordinate, scaleFactor) ==
  IF IsNum(coordinate) THEN Num(coordinate.v * scaleFactor) ELSE NaN

\* X-Z is the horizontal plane: the ecliptic z becomes y and y becomes z
ScaledPoint(eclipticPos, scaleFactor) ==
  [x |-> Scaled(eclipticPos.x, scaleFactor),
   y |-> Scaled(eclipticPos.z, scaleFactor),
   z |-> Scaled(eclipticPos.y, scaleFactor)]

\* transformToEcliptic(orbitalPos, this.orbitalElements), scaled
OrbitPointFrom(orbitalPos, orbitalElements, scaleFactor) ==
  CHOOSE point \in
    {ScaledPoint(eclipticPos, scaleFactor) :
       eclipticPos \in {transformToEcliptic(orbitalPos, orbitalElements)}} :
    TRUE

\* {...this.orbitalElements, meanLongitude: longitudeOfPerihelion + meanAnomaly}
TempElements(orbitalElements, meanAnomaly) ==
  [orbitalElements EXCEPT
     !.meanLongitude = orbitalElements.longitudeOfPerihelion + meanAnomaly]

\* one pass of the loop of calculateOrbitPoints; calculateOrbitalPosition is
\* called without a date and reads the clock
OrbitPoint(line, i, segments, now) ==
  CHOOSE point \in
    {OrbitPointFrom(orbitalPos, line.orbitalElements, line.scaleFactor) :
       orbitalPos \in
         {calculateOrbitalPosition(
            TempElements(line.orbitalElements, SegmentAnomaly(i, segments)),
            now)}} : TRUE

\* calculateOrbitPoints(): the points for i = 0 .. segments
PointsFor(line, segments, now) ==
  [k \in 1..(segments \div Quarter + 1) |->
     OrbitPoint(line, k - 1, segments, now)]

calculateOrbitPoints(line, now) ==
  CHOOSE points \in
    {PointsFor(line, segments, now) : segments \in {getSegmentCount(line)}} :
    TRUE

\* the number of points the loop `for (i = 0; i <= segments; i++)` pushes
VertexCount(segments) == segments \div Quarter + 1

\* no OrbitLine has been constructed
NoOrbitLine == Null

\* constructor(name, orbitalElements, config); a configuration value of 0
\* (or "") stands for a missing one and takes the `||` default
OrbitLineConstructed(name, orbitalElements, config) ==
  [name |-> name, orbitalElements |-> orbitalElements,
   segments |-> IF config.segments = 0 THEN 256 ELSE config.segments,
   scaleFactor |-> IF config.scaleFactor = 0 THEN 1 ELSE config.scaleFactor,
   levelOfDetail |->
     IF config.levelOfDetail = "" THEN "high" ELSE config.levelOfDetail,
   line |-> 0, geometry |-> Null, material |-> Null, builds |-> 0]

\* the BufferGeometry of create(): the positions are the points of
\* calculateOrbitPoints(), kept by what determines them (the segment count,
\* the scale factor and the clock reading of the computation); build tells
\* one geometry object from another
NewGeometry(line, segments, now) ==
  [build |-> line.builds + 1, vertices |-> VertexCount(segments),
   segments |-> segments, scaleFactor |-> line.scaleFactor,
   computedAt |-> now]

\* the LineBasicMaterial of create()
NewMaterial == [blending |-> "AdditiveBlending", depthWrite |-> FALSE]

\* create(): nothing for the sun or a zero axis; otherwise a new geometry,
\* material and line
create(line, now) ==
  IF line.name = "sun" \/ AuIsZero(line.orbitalElements.semiMajorAxis)
  THEN line
  ELSE CHOOSE created \in
         {[line EXCEPT !.geometry = NewGeometry(line, segments, now),
                       !.material = NewMaterial,
                       !.line = line.builds + 1,
                       !.builds = line.builds + 1] :
            segments \in {getSegmentCount(line)}} : TRUE

\* dispose()
dispose(line) ==
  [line EXCEPT !.geometry = Null, !.material = Null, !.line = 0]

\* recreate()
recreate(line, now) == create(dispose(line), now)

\* setLevelOfDetail(lod)
setLevelOfDetail(line, lod, now) ==
  IF lod # line.levelOfDetail
  THEN recreate([line EXCEPT !.levelOfDetail = lod], now)
  ELSE line

\* update(newScaleFactor)
update(line, newScaleFactor, now) ==
  IF newScaleFactor # Undefined /\ newScaleFactor.v # line.scaleFactor
  THEN recreate([line EXCEPT !.scaleFactor = newScaleFactor.v], now)
  ELSE line

\* the material after optimizeForPerformance has set its blending
NormalBlended(line) ==
  IF line.material = Null THEN line
  ELSE [line EXCEPT !.material =
          [blending |-> "NormalBlending", depthWrite |-> TRUE]]

\* optimizeForPerformance()
optimizeForPerformance(line, now) ==
  IF line.line = 0 THEN line
  ELSE IF BeyondTen(line.orbitalElements.semiMajorAxis)
  THEN recreate([NormalBlended(line) EXCEPT !.levelOfDetail = "low"], now)
  ELSE NormalBlended(line)

\* enableHighQuality()
enableHighQuality(line, now) ==
  IF line.material = Null THEN line
  ELSE recreate([line EXCEPT !.material = NewMaterial,
                             !.levelOfDetail = "high"], now)

MaxBuilds == 3                 \* geometries built for one OrbitLine

\* clock readings: the epoch and a later instant
ClockReadings == {J2000Date, J2000Date + DateStep}

\* the configurations an OrbitLine is constructed with
OrbitLineConfigs ==
  {[segments |-> s, scaleFactor |-> f, levelOfDetail |-> lod] :
     s \in {0, 8}, f \in {0, 2}, lod \in {"", "medium"}}

NewOrbitLine ==
  /\ orbitLine = NoOrbitLine
  /\ \E name \in {"sun", "mercury", "neptune"}, config \in OrbitLineConfigs :
       orbitLine' = OrbitLineConstructed(name, Lookup(name), config)
  /\ UNCHANGED <<kepler, call, sceneManager, catalog, app>>

CreateCall ==
  /\ orbitLine # NoOrbitLine
  /\ orbitLine.builds = 0
  /\ \E now \in ClockReadings : orbitLine' = create(orbitLine, now)
  /\ UNCHANGED <<kepler, call, sceneManager, catalog, app>>

SetLevelOfDetailCall ==
  /\ orbitLine # NoOrbitLine
  /\ orbitLine.builds < MaxBuilds
  /\ \E lod \in {"low", "medium", "high"}, now \in ClockReadings :
       orbitLine' = setLevelOfDetail(orbitLine, lod, now)
  /\ UNCHANGED <<kepler, call, sceneManager, catalog, app>>

UpdateCall ==
  /\ orbitLine # NoOrbitLine
  /\ orbitLine.builds < MaxBuilds
  /\ \E newScaleFactor \in {Undefined, Num(1), Num(2), Num(5)} :
     \E now \in ClockReadings :
       orbitLine' = update(orbitLine, newScaleFactor, now)
  /\ UNCHANGED <<kepler, call, sceneManager, catalog, app>>

OptimizeForPerformanceCall ==
  /\ orbitLine # NoOrbitLine
  /\ orbitLine.builds < MaxBuilds
  /\ \E now \in ClockReadings :
       orbitLine' = optimizeForPerformance(orbitLine, now)
  /\ UNCHANGED <<kepler, call, sceneManager, catalog, app>>

EnableHighQualityCall ==
  /\ orbitLine # NoOrbitLine
  /\ orbitLine.builds < MaxBuilds
  /\ \E now \in ClockReadings :
       orbitLine' = enableHighQuality(orbitLine, now)
  /\ UNCHANGED <<kepler, call, sceneManager, catalog, app>>

\* this.segments, this.levelOfDetail and eccentricities getSegmentCount is
\* asked with: a missing, a tiny, an odd and an oversized segment number, an
\* unknown level, and eccentricities on both sides of 0.1
SegmentConfigs == {0, 1, 8, 100, 150, 256, 600, 2000}
LevelsOfDetail == {"", "low", "medium", "high", "ultra"}
OrbitEccentricities ==
  {Lookup(n).eccentricity : n \in PlanetNames}
    \cup {0, Scale \div 10, Scale \div 10 + 1, Scale \div 4, Scale \div 2,
          99 * (Scale \div 100)}

GetSegmentCountCall ==
  /\ call = CallIdle
  /\ \E segments \in SegmentConfigs, lod \in LevelsOfDetail :
     \E eccentricity \in OrbitEccentricities :
       call' =
         [op |-> "getSegmentCount", eccentricity |-> eccentricity,
          result |->
            getSegmentCount(
              OrbitLineConstructed("earth",
                [SOLAR_SYSTEM_DATA.earth EXCEPT !.eccentricity = eccentricity],
                [segments |-> segments, scaleFactor |-> 0,
                 levelOfDetail |-> lod])),
          segments |-> IF segments = 0 THEN 256 ELSE segments,
          levelOfDetail |-> IF lod = "" THEN "high" ELSE lod]
  /\ UNCHANGED <<kepler, sceneManager, orbitLine, catalog, app>>

\* the OrbitLines whose points are computed: short ones of an eccentric and
\* a near-circular orbit, Mars with the default 256 segments, and Venus
\* with 150 segments at low and medium detail
OrbitPointInputs ==
  {[name |-> name,
    config |-> [segments |-> 8, scaleFactor |-> f, levelOfDetail |-> lod]] :
     name \in {"mercury", "mars"}, f \in {0, 2}, lod \in {"", "low"}}
    \cup {[name |-> "mars",
           config |-> [segments |-> 0, scaleFactor |-> 0,
                       levelOfDetail |-> ""]]}
    \cup {[name |-> "venus",
           config |-> [segments |-> 150, scaleFactor |-> 0,
                       levelOfDetail |-> lod]] : lod \in {"low", "medium"}}

CalculateOrbitPointsCall ==
  /\ call = CallIdle
  /\ \E input \in OrbitPointInputs, now \in ClockReadings :
       call' =
         [op |-> "calculateOrbitPoints", now |-> now,
          line |-> OrbitLineConstructed(input.name, catalog[input.name],
                                        input.config),
          result |->
            calculateOrbitPoints(
              OrbitLineConstructed(input.name, catalog[input.name],
                                   input.config), now)]
  /\ UNCHANGED <<kepler, sceneManager, orbitLine, catalog, app>>

\* Math.sqrt(p.x * p.x + p.y * p.y + p.z * p.z) of every point
PointDistances(points) ==
  {Hypot(points[k].x, points[k].y, points[k].z) : k \in DOMAIN points}

\* Math.min(...distances); NaN if any distance is
MinDistance(distances) ==
  IF NaN \in distances THEN NaN
  ELSE CHOOSE d \in distances : \A other \in distances : d.v <= other.v

\* Math.max(...distances)
MaxDistance(distances) ==
  IF NaN \in distances THEN NaN
  ELSE CHOOSE d \in distances : \A other \in distances : d.v >= other.v

\* Math.abs(distance - expected) / expected < 0.01
WithinOnePercent(distance, expected) ==
  IsNum(distance) /\ Abs(distance.v - expected) <= (expected - 1) \div 100

\* the outcome of runOrbitAccuracyTest for one planet
AccuracyOf(data, distances) ==
  [minDistance |-> MinDistance(distances),
   maxDistance |-> MaxDistance(distances),
   expectedPerihelion |->
     Mul(AuToFixed(data.semiMajorAxis), Scale - data.eccentricity),
   expectedAphelion |->
     Mul(AuToFixed(data.semiMajorAxis), Scale + data.eccentricity)]

\* runOrbitAccuracyTest for one planet: an OrbitLine with scaleFactor 1.0
\* and its points
runOrbitAccuracyTest(name, now) ==
  CHOOSE outcome \in
    {AccuracyOf(SOLAR_SYSTEM_DATA[name], distances) :
       distances \in
         {PointDistances(calculateOrbitPoints(
            OrbitLineConstructed(name, SOLAR_SYSTEM_DATA[name],
              [segments |-> 0, scaleFactor |-> 1, levelOfDetail |-> ""]),
            now))}} : TRUE

RunOrbitAccuracyTest ==
  /\ call = CallIdle
  /\ \E name \in PlanetNames, now \in ClockReadings :
       call' = [op |-> "runOrbitAccuracyTest", name |-> name, now |-> now,
                result |-> runOrbitAccuracyTest(name, now)]
  /\ UNCHANGED <<kepler, sceneManager, orbitLine, catalog, app>>

(***************************************************************************)
(* calculatePhaseAngle, calculateApparentMagnitude,                        *)
(* calculateVisibilityFromPosition.  Magnitudes are in MagScale units.     *)
(***************************************************************************)
MagScale == 1000000
Log10Of2 == 30103000           \* Math.log10(2)

\* the binary digits of log2 m after the point, for a Scale-d m in [1, 2):
\* squaring m shifts the next digit in front of the point
RECURSIVE Log2Bits(_, _)
Log2Bits(m, weight) ==
  IF weight = 0 THEN 0
  ELSE IF Mul(m, m) >= 2 * Scale
  THEN weight + Log2Bits(RoundDiv(Mul(m, m), 2), weight \div 2)
  ELSE Log2Bits(Mul(m, m), weight \div 2)

\* log2 of a length in AU (v > 0), Scale-d
RECURSIVE Log2Au(_)
Log2Au(v) ==
  IF v >= 2 * AuScale THEN Scale + Log2Au(RoundDiv(v, 2))
  ELSE IF v < AuScale THEN Log2Au(2 * v) - Scale
  ELSE Log2Bits(v * (Scale \div AuScale), Scale \div 2)

\* Math.log10 of a length in AU
Log10Au(v) == Mul(Log2Au(v), Log10Of2)

\* 5 * Math.log10(distanceToObserver * distanceFromSun), from the sum of
\* the two logarithms; the logarithm of 0 is -Infinity
distanceMagnitude(distanceToObserver, distanceFromSun) ==
  IF ~IsNum(distanceToObserver) \/ ~IsNum(distanceFromSun) THEN NaN
  ELSE IF distanceToObserver.v = 0 \/ distanceFromSun.v = 0 THEN NegInf
  ELSE Num(RoundDiv(Log10Au(distanceToObserver.v)
                      + Log10Au(distanceFromSun.v), 20))

\* pos1 - pos2, component by component
Difference(pos1, pos2) ==
  [x |-> JsSub(pos1.x, pos2.x), y |-> JsSub(pos1.y, pos2.y),
   z |-> JsSub(pos1.z, pos2.z)]

\* calculateDistance(pos1, pos2)
calculateDistance(pos1, pos2) ==
  CHOOSE distance \in
    {Hypot(d.x, d.y, d.z) : d \in {Difference(pos1, pos2)}} : TRUE

\* Math.acos(Math.max(-1, Math.min(1, cosPhase))) in degrees
AcosDegrees(cosPhase) ==
  CHOOSE angle \in
    {RadToDeg(Atan2(Sqrt(Scale - Mul(c, c)), c)) :
       c \in {Max(-Scale, Min(Scale, cosPhase))}} : TRUE

\* dotProduct / (magnitudeBody * magnitudeSun), from the unit vectors
CosPhase(toBody, toSun, magnitudeBody, magnitudeSun) ==
  Mul(Div(toBody.x.v, magnitudeBody), Div(toSun.x.v, magnitudeSun))
    + Mul(Div(toBody.y.v, magnitudeBody), Div(toSun.y.v, magnitudeSun))
    + Mul(Div(toBody.z.v, magnitudeBody), Div(toSun.z.v, magnitudeSun))

\* the angle between the vectors; 0 / 0 is NaN for a vector of length 0
AngleBetween(toBody, toSun, magnitudeBody, magnitudeSun) ==
  IF ~IsNum(magnitudeBody) \/ ~IsNum(magnitudeSun) THEN NaN
  ELSE IF magnitudeBody.v = 0 \/ magnitudeSun.v = 0 THEN NaN
  ELSE Num(AcosDegrees(CosPhase(toBody, toSun, magnitudeBody.v,
                                magnitudeSun.v)))

\* calculatePhaseAngle(bodyPos, observerPos) with the Sun at the origin
calculatePhaseAngle(bodyPos, observerPos) ==
  CHOOSE phaseAngle \in
    {AngleBetween(toBody, toSun, Hypot(toBody.x, toBody.y, toBody.z),
                  Hypot(toSun.x, toSun.y, toSun.z)) :
       toBody \in {Difference(bodyPos, observerPos)},
       toSun \in {Difference(SunPosition, observerPos)}} : TRUE

\* baseMagnitudes[bodyData.name] || 10.0
baseMagnitudes ==
  [mercury |-> -420000, venus |-> -4400000, mars |-> -2940000,
   jupiter |-> -2940000, saturn |-> -550000, uranus |-> 5680000,
   neptune |-> 7840000]

BaseMagnitudeOf(bodyData) ==
  IF "name" \in DOMAIN bodyData /\ bodyData.name \in DOMAIN baseMagnitudes
  THEN baseMagnitudes[bodyData.name]
  ELSE 10 * MagScale

\* phaseAngle > 90 ? (phaseAngle - 90) / 90 * 2 : 0
phaseCorrection(phaseAngle) ==
  IF IsNum(phaseAngle) /\ phaseAngle.v > 90 * DegScale
  THEN RoundDiv((phaseAngle.v - 90 * DegScale) * 2, 9)
  ELSE 0

\* baseMag + distanceMagnitude + phaseCorrection
ApparentMag(baseMag, distanceMag, correction) ==
  IF IsNum(distanceMag) THEN Num(baseMag + distanceMag.v + correction)
  ELSE distanceMag

\* a < limit for a magnitude a
MagBelow(a, limit) == a = NegInf \/ (IsNum(a) /\ a.v < limit)

\* the returned object of calculateApparentMagnitude
MagnitudeRecord(apparentMag, distanceToObserver, distanceFromSun, phaseAngle) ==
  [apparentMagnitude |-> apparentMag,
   distanceToObserver |-> distanceToObserver,
   distanceFromSun |-> distanceFromSun, phaseAngle |-> phaseAngle,
   isVisible |-> MagBelow(apparentMag, 65 * (MagScale \div 10)),
   isEasilyVisible |-> MagBelow(apparentMag, 4 * MagScale),
   isBrightPlanet |-> MagBelow(apparentMag, MagScale)]

MagnitudeFrom(bodyData, distanceToObserver, distanceFromSun, phaseAngle) ==
  CHOOSE visibility \in
    {MagnitudeRecord(apparentMag, distanceToObserver, distanceFromSun,
                     phaseAngle) :
       apparentMag \in
         {ApparentMag(BaseMagnitudeOf(bodyData),
                      distanceMagnitude(distanceToObserver, distanceFromSun),
                      phaseCorrection(phaseAngle))}} : TRUE

\* the position's distance field; the Sun's position has none
MagnitudeAt(bodyData, bodyPos, observerPos) ==
  CHOOSE visibility \in
    {MagnitudeFrom(bodyData, distanceToObserver, PosField(bodyPos, "distance"),
                   phaseAngle) :
       distanceToObserver \in {calculateDistance(bodyPos, observerPos)},
       phaseAngle \in {calculatePhaseAngle(bodyPos, observerPos)}} : TRUE

\* calculateApparentMagnitude(bodyData, observerPos); the position is that
\* of the clock reading
calculateApparentMagnitude(bodyData, observerPos, now) ==
  CHOOSE visibility \in
    {MagnitudeAt(bodyData, bodyPos, observerPos) :
       bodyPos \in {calculateHeliocentricPosition(bodyData, now)}} : TRUE

\* the realistic branch without its telescopic level
RealisticLevelNakedEye(apparentMagnitude) ==
  IF MagBelow(apparentMagnitude, MagScale) THEN "bright"
  ELSE IF MagBelow(apparentMagnitude, 4 * MagScale) THEN "visible"
  ELSE IF MagBelow(apparentMagnitude, 65 * (MagScale \div 10)) THEN "faint"
  ELSE "invisible"

\* the realistic branch: the level of an apparent magnitude
RealisticLevel(apparentMagnitude) ==
  IF MagBelow(apparentMagnitude, MagScale) THEN "bright"
  ELSE IF MagBelow(apparentMagnitude, 4 * MagScale) THEN "visible"
  ELSE IF MagBelow(apparentMagnitude, 65 * (MagScale \div 10)) THEN "faint"
  ELSE IF MagBelow(apparentMagnitude, 10 * MagScale) THEN "telescopic"
  ELSE "invisible"

\* the scaleFactor of a level of the realistic branch
RealisticScaleFactor(visibilityLevel) ==
  CASE visibilityLevel = "bright" -> Num(Scale)
    [] visibilityLevel = "visible" -> Num(8 * (Scale \div 10))
    [] visibilityLevel = "faint" -> Num(3 * (Scale \div 10))
    [] visibilityLevel = "telescopic" -> Num(Scale \div 10)
    [] OTHER -> Num(0)

\* Math.max(0.1, Math.min(1.0, 10.0 / distanceToObserver)); NaN for a
\* distance that is NaN
EnhancedScaleFactor(distanceToObserver) ==
  IF ~IsNum(distanceToObserver) THEN NaN
  ELSE IF distanceToObserver.v <= 10 * AuScale THEN Num(Scale)
  ELSE Num(Max(Scale \div 10, Div(10 * AuScale, distanceToObserver.v)))

\* scaleFactor > 0.5 ? 'visible' : 'faint'
EnhancedLevel(scaleFactor) ==
  IF IsNum(scaleFactor) /\ scaleFactor.v > Scale \div 2 THEN "visible"
  ELSE "faint"

\* (physicalRadius / distanceKm) * 206265, in hundredths of an arcsecond
angularSize(bodyData, distanceToObserver) ==
  IF ~IsNum(distanceToObserver) THEN NaN
  ELSE IF distanceToObserver.v = 0 THEN PosInf
  ELSE Num(Mul(Div(bodyData.radius, distanceToObserver.v), 137879600))

\* {...visibility, angularSize, visibilityLevel, scaleFactor, shouldRender,
\* needsLabel}
VisibilityRecord(visibility, size, visibilityLevel, scaleFactor) ==
  [apparentMagnitude |-> visibility.apparentMagnitude,
   distanceToObserver |-> visibility.distanceToObserver,
   distanceFromSun |-> visibility.distanceFromSun,
   phaseAngle |-> visibility.phaseAngle,
   isVisible |-> visibility.isVisible,
   isEasilyVisible |-> visibility.isEasilyVisible,
   isBrightPlanet |-> visibility.isBrightPlanet,
   angularSize |-> size,
   visibilityLevel |-> visibilityLevel,
   scaleFactor |-> scaleFactor,
   shouldRender |-> IsNum(scaleFactor) /\ scaleFactor.v > 0,
   needsLabel |-> visibilityLevel \in {"faint", "telescopic"}]

VisibilityOf(bodyData, visibility, mode) ==
  IF mode = "realistic"
  THEN VisibilityRecord(visibility,
         angularSize(bodyData, visibility.distanceToObserver),
         RealisticLevel(visibility.apparentMagnitude),
         RealisticScaleFactor(RealisticLevel(visibility.apparentMagnitude)))
  ELSE VisibilityRecord(visibility,
         angularSize(bodyData, visibility.distanceToObserver),
         EnhancedLevel(EnhancedScaleFactor(visibility.distanceToObserver)),
         EnhancedScaleFactor(visibility.distanceToObserver))

\* calculateVisibilityFromPosition(bodyData, observerPos, mode)
calculateVisibilityFromPosition(bodyData, observerPos, mode, now) ==
  CHOOSE result \in
    {VisibilityOf(bodyData, visibility, mode) :
       visibility \in
         {calculateApparentMagnitude(bodyData, observerPos, now)}} : TRUE

\* a catalog entry with a name field added
Named(bodyName) ==
  [f \in DOMAIN catalog[bodyName] \cup {"name"} |->
     IF f = "name" THEN bodyName ELSE catalog[bodyName][f]]

\* the bodies whose visibility is asked: the catalog's entries, which have
\* no name field, and copies of three carrying their names
VisibilityBodies ==
  {catalog[n] : n \in BodyNames}
    \cup {Named(n) : n \in {"venus", "jupiter", "neptune"}}

\* a position in whole tenths of an AU
Observer(x, y, z) ==
  [x |-> Num(x * (AuScale \div 10)), y |-> Num(y * (AuScale \div 10)),
   z |-> Num(z * (AuScale \div 10))]

\* observer positions: the origin and places near and far
ObserverPositions ==
  {Observer(0, 0, 0), Observer(10, 0, 0), Observer(4, 1, 0),
   Observer(0, -50, 0), Observer(-300, 100, 10), Observer(250, -150, 0)}

CalculateVisibilityCall ==
  /\ call = CallIdle
  /\ \E bodyData \in VisibilityBodies, observerPos \in ObserverPositions :
     \E mode \in Modes, now \in ClockReadings :
       call' = [op |-> "calculateVisibilityFromPosition",
                bodyData |-> bodyData, observerPos |-> observerPos,
                mode |-> mode, now |-> now,
                result |-> calculateVisibilityFromPosition(bodyData,
                             observerPos, mode, now)]
  /\ UNCHANGED <<kepler, sceneManager, orbitLine, catalog, app>>

\* where the observer of a magnitude call stands: at the body, at the Sun
\* (the origin) or one AU along the x axis
ObserverAt(place, bodyPos) ==
  IF place = "body" THEN [x |-> bodyPos.x, y |-> bodyPos.y, z |-> bodyPos.z]
  ELSE IF place = "sun" THEN [x |-> Num(0), y |-> Num(0), z |-> Num(0)]
  ELSE [x |-> Num(AuScale), y |-> Num(0), z |-> Num(0)]

\* calculateApparentMagnitude(bodyData, observerPos) for a planet, the
\* observer placed relative to the planet's position of the clock reading
CalculateApparentMagnitudeCall ==
  /\ call = CallIdle
  /\ \E bodyName \in PlanetNames, place \in {"body", "sun", "elsewhere"} :
     \E now \in ClockReadings :
     \E bodyPos \in {calculateHeliocentricPosition(catalog[bodyName], now)} :
       call' = [op |-> "calculateApparentMagnitude", bodyName |-> bodyName,
                place |-> place, now |-> now,
                observerPos |-> ObserverAt(place, bodyPos),
                result |-> MagnitudeAt(catalog[bodyName], bodyPos,
                                       ObserverAt(place, bodyPos))]
  /\ UNCHANGED <<kepler, sceneManager, orbitLine, catalog, app>>

(***************************************************************************)
(* getDaysSinceJ2000 and the day count of testBasicOrbitalMechanics        *)
(***************************************************************************)
\* new Date('2000-01-01T12:00:00Z'): 10957.5 days after 1970-01-01
TestEpoch == 10957500

\* (currentDate - J2000_EPOCH) / (1000 * 60 * 60 * 24)
daysSinceJ2000(currentDate) == currentDate - TestEpoch

\* timestamps: the dates around the epoch, the instants next to it, the
\* start of 1970 and an instant before it
Timestamps ==
  Dates \cup {0, -TestEpoch, TestEpoch - 1, TestEpoch, TestEpoch + 1}

\* getDaysSinceJ2000 of a timestamp and of a later one
GetDaysSinceJ2000Call ==
  /\ call = CallIdle
  /\ \E date \in Timestamps, later \in Timestamps :
       /\ date < later
       /\ call' = [op |-> "getDaysSinceJ2000", date |-> date,
                   result |-> getDaysSinceJ2000(date), later |-> later,
                   laterResult |-> getDaysSinceJ2000(later)]
  /\ UNCHANGED <<kepler, sceneManager, orbitLine, catalog, app>>

Init ==
  /\ kepler = KeplerIdle
  /\ call = CallIdle
  /\ sceneManager = SceneManagerConstructed
  /\ orbitLine = NoOrbitLine
  /\ catalog = CatalogObjects
  /\ app = AppConstructed

SpecKepler == Init /\ [][NextKepler]_vars

NextMeanAnomaly == MeanAnomalyCall \/ CallReturn
SpecMeanAnomaly == Init /\ [][NextMeanAnomaly]_vars

NextPosition ==
  HeliocentricPositionCall \/ OrbitalVelocityCall \/ AstronomicalInfoCall
    \/ CallReturn
SpecPosition == Init /\ [][NextPosition]_vars

NextCatalog ==
  GetScaledDataCall \/ GetAstronomicalInfoCall \/ GetDistanceBetweenBodiesCall
    \/ CallReturn
SpecCatalog == Init /\ [][NextCatalog]_vars

NextScaling == CalculateScaledRadiusCall \/ CallReturn
SpecScaling == Init /\ [][NextScaling]_vars

NextScene ==
  LoadSolarSystemCall \/ SetVisualizationModeCall \/ ImportResume
    \/ BodiesCreated \/ LoadResume
SpecScene == Init /\ [][NextScene]_vars

NextOrbitLine ==
  NewOrbitLine \/ CreateCall \/ SetLevelOfDetailCall \/ UpdateCall
    \/ OptimizeForPerformanceCall \/ EnableHighQualityCall
SpecOrbitLine == Init /\ [][NextOrbitLine]_vars

NextOrbitPoints ==
  GetSegmentCountCall \/ CalculateOrbitPointsCall \/ RunOrbitAccuracyTest
    \/ CallReturn
SpecOrbitPoints == Init /\ [][NextOrbitPoints]_vars

NextVisibility ==
  CalculateVisibilityCall \/ CalculateApparentMagnitudeCall \/ CallReturn
SpecVisibility == Init /\ [][NextVisibility]_vars

\* the calls of the computational core on the catalog's objects
NextCore ==
  GetScaledDataCall \/ HeliocentricPositionCall \/ CalculateVisibilityCall
    \/ CalculateOrbitPointsCall \/ CallReturn
SpecCore == Init /\ [][NextCore]_vars

NextDays == GetDaysSinceJ2000Call \/ CallReturn
SpecDays == Init /\ [][NextDays]_vars

\* the scene with the frames of the animation loop
NextSceneFrames == NextScene \/ FrameUpdate
SpecSceneFrames == Init /\ [][NextSceneFrames]_vars

\* the application: the first load, the start and the frames, with the
\* changes of visibility
NextApp ==
  LoadSolarSystemCall \/ BodiesCreated \/ LoadResume \/ InitApp \/ StartApp
    \/ VisibilityChange \/ AnimationFrame \/ KeyDown \/ KeyUp
SpecApp == Init /\ [][NextApp]_vars

\* the started application with the travels
NextTravel ==
  LoadSolarSystemCall \/ BodiesCreated \/ LoadResume \/ InitApp \/ StartApp
    \/ AnimationFrame \/ KeyDown \/ KeyUp \/ TravelToCall \/ ResumeTimer
SpecTravel == Init /\ [][NextTravel]_vars

\* the scene with the telescope keys
NextTelescope ==
  NextScene \/ ToggleTelescopeModeCall \/ ZoomInCall \/ ZoomOutCall
    \/ FindNearestPlanetCall
SpecTelescope == Init /\ [][NextTelescope]_vars

Next ==
  NextKepler \/ NextMeanAnomaly \/ NextPosition \/ NextCatalog \/ NextScaling
    \/ NextScene \/ NextOrbitLine \/ NextOrbitPoints \/ NextVisibility
    \/ NextCore \/ NextDays \/ NextSceneFrames
    \/ NextTelescope \/ NextApp \/ NextTravel

Spec == Init /\ [][Next]_vars

(***************************************************************************)
(* Claims about the Kepler solver (checked under SpecKepler)               *)
(***************************************************************************)
KeplerRunning == kepler.pc \in {"loop", "return"}
KeplerDone == kepler.pc = "done"

\* the number of Newton updates never exceeds the budget; a call that ends
\* without meeting the tolerance has made exactly maxIterations updates and
\* still returns its last estimate, a number
KeplerBounded ==
  /\ kepler.pc # "idle" => kepler.updates <= kepler.maxIterations
  /\ (KeplerDone /\ ~kepler.broke) =>
        /\ kepler.updates = kepler.maxIterations
        /\ kepler.result \in Int
  /\ (KeplerDone /\ kepler.broke) => Abs(kepler.deltaE) < kepler.tolerance

\* how far a started call is from its return: every step of the function
\* lowers it, so no call runs forever
KeplerRank ==
  CASE kepler.pc = "loop" -> 2 * (kepler.maxIterations - kepler.i) + 2
    [] kepler.pc = "return" -> 1
    [] OTHER -> 0

\* C1: solveKeplersEquation terminates after at most maxIterations Newton
\* updates for every mean anomaly and eccentricity, and when the step never
\* falls below the tolerance it still returns the last estimate as a normal
\* value (there is no other exit: no error, no non-convergence signal).
C1_SolverTerminates ==
  /\ []KeplerBounded
  /\ [](kepler.pc # "idle" => KeplerRank >= 0)
  /\ [][kepler.pc # "idle" => KeplerRank' < KeplerRank]_vars

\* a call with the default budget that used it up to the last iteration
\* could not happen on this grid; one with a smaller budget does: it returns
\* although the last step was not below the tolerance
C1_ReturnsUnconverged ==
  /\ KeplerDone
  /\ ~kepler.broke
  /\ kepler.updates = kepler.maxIterations
  /\ Abs(kepler.deltaE) >= kepler.tolerance

\* C2: for every eccentricity in [0, 0.25] and every mean anomaly, the value
\* E returned with the default tolerance 1e-6 and 20 iterations satisfies
\* |E - e sin E - M_rad| < 1e-6, and the loop left by its convergence test.
C2_ResidualBelowTolerance ==
  (/\ KeplerDone
   /\ kepler.eccentricity <= ValidatedEccentricity
   /\ kepler.tolerance = DefaultTolerance
   /\ kepler.maxIterations = DefaultMaxIterations)
  => /\ kepler.broke
     /\ Abs(KeplerResidual(kepler.result, kepler.eccentricity,
                           kepler.meanAnomalyRad)) < DefaultTolerance

\* a default call at the validated limit e = 0.25 that needed several updates
C2_ConvergedAtLimit ==
  /\ KeplerDone
  /\ kepler.eccentricity = ValidatedEccentricity
  /\ kepler.maxIterations = DefaultMaxIterations
  /\ kepler.updates >= 3
  /\ kepler.broke

(***************************************************************************)
(* Claims about the mean anomaly (checked under SpecMeanAnomaly)           *)
(***************************************************************************)
MeanAnomalyCalled == call.op = "calculateMeanAnomaly"

\* the raw difference of the call: meanLongitude + (360 / P) days - lonPeri
CalledRawMeanAnomaly ==
  RawMeanAnomaly(call.orbitalElements.meanLongitude,
                 call.orbitalElements.orbitalPeriod,
                 call.orbitalElements.longitudeOfPerihelion,
                 getDaysSinceJ2000(call.date))

\* C3: calculateMeanAnomaly returns meanLongitude + (360 / orbitalPeriod)
\* days - longitudeOfPerihelion reduced into [0, 360): a number in that
\* range which differs from the raw value by whole turns, for dates before
\* and after the epoch and for raw values below 0 or above 360.
C3_MeanAnomalyNormalized ==
  MeanAnomalyCalled =>
    /\ IsNum(call.result)
    /\ 0 <= call.result.v
    /\ call.result.v < FullTurn
    /\ (CalledRawMeanAnomaly - call.result.v) % FullTurn = 0

\* a date before the epoch whose raw mean anomaly is negative
C3_NegativeBeforeEpoch ==
  /\ MeanAnomalyCalled
  /\ getDaysSinceJ2000(call.date) < 0
  /\ CalledRawMeanAnomaly < -FullTurn
  /\ call.result.v > 0

(***************************************************************************)
(* Claims about positions and velocities (checked under SpecPosition)      *)
(***************************************************************************)
PositionCalled == call.op = "calculateHeliocentricPosition"
PlanetPositionCalled == PositionCalled /\ call.bodyName \in PlanetNames

\* the same elements with 360 degrees added to meanLongitude
LongitudePlusTurn(el) ==
  [el EXCEPT !.meanLongitude = el.meanLongitude + FullTurn]

\* the position of the called body one turn of mean longitude on
TurnedPosition ==
  calculateHeliocentricPosition(LongitudePlusTurn(Lookup(call.bodyName)),
                                call.date)

\* the position of the called body one orbital period later
PeriodLaterPosition ==
  calculateHeliocentricPosition(Lookup(call.bodyName),
                                call.date + Lookup(call.bodyName).orbitalPeriod)

AngleTolerance == DegScale \div 1000       \* 0.001 degrees
LengthTolerance == AuScale \div 1000       \* 0.001 AU

\* two angles in degrees agree modulo 360 within the tolerance
SameAngle(a, b) ==
  /\ IsNum(a) /\ IsNum(b)
  /\ LET d == (a.v - b.v) % FullTurn
     IN d <= AngleTolerance \/ FullTurn - d <= AngleTolerance

SameLength(a, b) ==
  IsNum(a) /\ IsNum(b) /\ Abs(a.v - b.v) <= LengthTolerance

SamePosition(p, q) ==
  /\ SameLength(p.x, q.x) /\ SameLength(p.y, q.y) /\ SameLength(p.z, q.z)
  /\ SameLength(p.distance, q.distance)
  /\ SameAngle(p.meanAnomaly, q.meanAnomaly)
  /\ SameAngle(p.eccentricAnomaly, q.eccentricAnomaly)
  /\ SameAngle(p.trueAnomaly, q.trueAnomaly)

\* C4 as stated: adding 360 degrees to meanLongitude, or one orbitalPeriod
\* to the date, leaves every field of the position identical.
C4_PositionIdentical ==
  PlanetPositionCalled =>
    /\ TurnedPosition = call.result
    /\ PeriodLaterPosition = call.result

\* C4: adding 360 degrees to meanLongitude, or one orbitalPeriod to the
\* date, leaves every field of the position unchanged within the rounding
\* tolerance, the anomalies being compared modulo 360 degrees.
C4_PositionPeriodic ==
  PlanetPositionCalled =>
    /\ SamePosition(TurnedPosition, call.result)
    /\ SamePosition(PeriodLaterPosition, call.result)

\* a planet whose position one period later is close to, and not the same
\* as, the position at the date
C4_PeriodLaterDiffers ==
  /\ PlanetPositionCalled
  /\ PeriodLaterPosition # call.result
  /\ SamePosition(PeriodLaterPosition, call.result)

\* C5: for the sun (semiMajorAxis = 0) the position is the origin, found
\* without running the Kepler solver, and the orbital speed reported by
\* calculateAstronomicalInfo and calculateOrbitalVelocity is zero.
C5_SunAtOriginAtRest ==
  /\ (call.op = "calculateAstronomicalInfo" /\ call.bodyName = "sun") =>
        /\ ~call.solver
        /\ call.result.position.x = Num(0)
        /\ call.result.position.y = Num(0)
        /\ call.result.position.z = Num(0)
        /\ call.result.orbitalVelocity = Num(0)
  /\ (PositionCalled /\ call.bodyName = "sun") =>
        ~call.solver /\ call.result = SunPosition
  /\ (call.op = "calculateOrbitalVelocity" /\ call.bodyName = "sun") =>
        call.result = Num(0)

(***************************************************************************)
(* Claims about the catalog's functions (checked under SpecCatalog)        *)
(***************************************************************************)
PositionFields ==
  {"x", "y", "z", "distance", "meanAnomaly", "eccentricAnomaly", "trueAnomaly"}

WellFormedPosition(p) ==
  /\ ~IsThrown(p)
  /\ \A f \in PositionFields : f \in DOMAIN p /\ IsNum(p[f])

\* C6: for every orbiting body of the catalog (the planets and the moons)
\* the currentPosition returned by getScaledData and getAstronomicalInfo has
\* x, y, z, distance and the three anomalies defined and numeric.
C6_CatalogPositionsNumeric ==
  (/\ call.op \in {"getScaledData", "getAstronomicalInfo"}
   /\ call.names[1] \in BodyNames \ {"sun"})
  => /\ call.result # Null
     /\ WellFormedPosition(call.result.currentPosition)

UnknownRequested ==
  /\ call.op \in {"getScaledData", "getAstronomicalInfo",
                  "getDistanceBetweenBodies"}
  /\ \E i \in DOMAIN call.names : call.names[i] \in UnknownNames

\* C7: a body name held by neither SOLAR_SYSTEM_DATA nor MOONS_DATA gives
\* an explicit empty result from getScaledData, getAstronomicalInfo and
\* getDistanceBetweenBodies (either argument unknown); none of them throws.
C7_UnknownBodyEmptyResult ==
  UnknownRequested => ~IsThrown(call.result) /\ call.result = Null

(***************************************************************************)
(* Claims about radius scaling (checked under SpecScaling)                 *)
(***************************************************************************)
ScaledRadiusCalled ==
  call.op = "calculateScaledRadius" /\ call.bodyName # "sun"

EnhancedModeCalled ==
  ScaledRadiusCalled /\ call.mode \in {"exploration", "artistic"}

CalledProfile ==
  IF call.mode = "artistic" THEN ARTISTIC_SCALING
  ELSE IF call.mode = "realistic" THEN TRUE_ASTRONOMICAL_SCALING
  ELSE EXPLORATION_SCALING

\* base = r * baseSizeScale
CalledBase == ScaleRadius(call.originalRadius, CalledProfile.baseSizeScale)

\* f = min(maxSizeEnhancement, minPlanetRadius / base) below the floor, and
\* 1 otherwise (the caps are whole numbers)
ExpectedFactor ==
  IF CalledBase < CalledProfile.minPlanetRadius
  THEN IF CalledProfile.minPlanetRadius \div CalledBase
            >= CalledProfile.maxSizeEnhancement \div Scale
       THEN CalledProfile.maxSizeEnhancement
       ELSE Div(CalledProfile.minPlanetRadius, CalledBase)
  ELSE Scale

\* C8: under the exploration and artistic profiles the scaled radius of a
\* non-central body of any positive radius r equals base * f, with
\* base = r * baseSizeScale and f = min(maxSizeEnhancement,
\* minPlanetRadius / base) when base < minPlanetRadius, f = 1 otherwise.
C8_EnhancementFormula ==
  EnhancedModeCalled => call.result = Mul(CalledBase, ExpectedFactor)

\* a body lifted by a factor strictly between 1 and the cap
C8_EnhancedBelowCap ==
  /\ EnhancedModeCalled
  /\ CalledBase < CalledProfile.minPlanetRadius
  /\ ExpectedFactor > Scale
  /\ ExpectedFactor < CalledProfile.maxSizeEnhancement
  /\ call.result > CalledBase

\* C9: under the realistic profile the scaled radius of a non-central body
\* is exactly r * baseSizeScale for every positive radius r.
C9_RealisticExactScale ==
  (ScaledRadiusCalled /\ call.mode = "realistic") => call.result = CalledBase

\* C10: under the exploration and artistic profiles the scaled radius is
\* never below the baseline r * baseSizeScale, and equals it whenever the
\* baseline is at or above minPlanetRadius.
C10_NeverBelowBaseline ==
  EnhancedModeCalled =>
    /\ call.result >= CalledBase
    /\ CalledBase >= CalledProfile.minPlanetRadius => call.result = CalledBase

\* a body at or above the floor, left at its baseline
C10_LargeBodyUntouched ==
  /\ EnhancedModeCalled
  /\ CalledBase >= CalledProfile.minPlanetRadius
  /\ call.result = CalledBase

\* getScaledData has returned the scaled copy of a cataloged body
ScaledDataCalled ==
  call.op = "getScaledData" /\ call.names[1] \in BodyNames

\* the distanceScale of the profile in force for the mode of the call
CalledDistanceScale ==
  IF call.mode = "realistic" THEN 1000
  ELSE IF call.mode = "artistic" THEN 25
  ELSE 50

\* C11: the semiMajorAxis returned by getScaledData is the catalog's
\* semiMajorAxis times the single distanceScale of the profile (1000
\* realistic, 50 exploration, 25 artistic), the same factor for every body,
\* so that dividing the result by the factor gives the catalog value back;
\* Neptune under the realistic profile is 30.06896348 * 1000.
C11_DistanceScaledUniformly ==
  ScaledDataCalled =>
    /\ call.result.semiMajorAxis[1] \div CalledDistanceScale
         = Lookup(call.names[1]).semiMajorAxis[1]
    /\ (call.result.semiMajorAxis[1] % CalledDistanceScale)
           * (Scale \div CalledDistanceScale)
         + call.result.semiMajorAxis[2] \div CalledDistanceScale
         = Lookup(call.names[1]).semiMajorAxis[2]
    /\ call.result.semiMajorAxis[2] % CalledDistanceScale = 0
    /\ (call.names[1] = "neptune" /\ call.mode = "realistic")
         => call.result.semiMajorAxis = <<30068, 96348000>>

\* Neptune under the realistic profile, at 30068.96348 scene units
C11_NeptuneTrueScale ==
  /\ ScaledDataCalled
  /\ call.names[1] = "neptune"
  /\ call.mode = "realistic"
  /\ call.result.semiMajorAxis = <<30068, 96348000>>

\* the profile of the call with other planet parameters
PlanetParameterVariants ==
  {[CalledProfile EXCEPT !.baseSizeScale = b, !.minPlanetRadius = lo,
                         !.maxSizeEnhancement = hi] :
     b \in {<<10, 1>>, <<1250, 1>>}, lo \in {Scale \div 1000, 2 * Scale},
     hi \in {Scale, 12 * Scale}}

\* the profile of the call with another Sun pair
SunParameterVariants ==
  {[CalledProfile EXCEPT !.sunSizeScale = s, !.sunMinRadius = lo] :
     s \in {<<100, 1>>, <<50, 1>>, <<200, 3>>},
     lo \in {7 * (Scale \div 10), 8 * Scale, 15 * Scale}}

\* radius * sunSizeScale of the profile in force: 1/100000 realistic,
\* 1/200000 exploration (and fallback), 1/150000 artistic
CalledSunScaled ==
  IF call.mode = "realistic" THEN call.originalRadius * 100
  ELSE IF call.mode = "artistic" THEN RoundDiv(call.originalRadius * 200, 3)
  ELSE call.originalRadius * 50

\* sunMinRadius of the profile in force: 0.7, 8.0, 15.0
CalledSunMinRadius ==
  IF call.mode = "realistic" THEN 70000000
  ELSE IF call.mode = "artistic" THEN 1500000000
  ELSE 800000000

\* C12: the scaled radius of the sun is max(radius * sunSizeScale,
\* sunMinRadius) of the profile in force whatever the planet parameters
\* (baseSizeScale, minPlanetRadius, maxSizeEnhancement) are, and another
\* Sun pair leaves the scaled radius of every other body unchanged.
C12_SunScaledByOwnPair ==
  call.op = "calculateScaledRadius" =>
    /\ call.bodyName = "sun" =>
         /\ call.result = IF CalledSunScaled > CalledSunMinRadius
                          THEN CalledSunScaled ELSE CalledSunMinRadius
         /\ \A scaling \in PlanetParameterVariants :
              calculateScaledRadius(call.originalRadius, "sun", scaling,
                                    call.mode) = call.result
    /\ call.bodyName # "sun" =>
         \A scaling \in SunParameterVariants :
           calculateScaledRadius(call.originalRadius, call.bodyName, scaling,
                                 call.mode) = call.result

\* the Sun's 696340 km under the exploration profile, raised to the floor 8.0
C12_SunAtFloor ==
  /\ call.op = "calculateScaledRadius"
  /\ call.bodyName = "sun"
  /\ call.mode = "exploration"
  /\ call.originalRadius = SOLAR_SYSTEM_DATA.sun.radius
  /\ CalledSunScaled < CalledSunMinRadius
  /\ call.result = 8 * Scale

\* the first load has finished and no setVisualizationMode is in progress
NoSwitchInProgress ==
  /\ sceneManager.loaded
  /\ \A i \in DOMAIN sceneManager.pending :
       sceneManager.pending[i].op # "setVisualizationMode"

\* the body carries the radius and semiMajorAxis getScaledData gives its
\* name under the mode
BuiltFrom(body, mode) ==
  /\ body.mode = mode
  /\ body.radius = calculateScaledRadius(Lookup(body.name).radius, body.name,
                                         getScalingConfig(mode), mode)
  /\ body.semiMajorAxis = ScaleAxis(Lookup(body.name).semiMajorAxis,
                                    getScalingConfig(mode).distanceScale)

\* C13: whenever no setVisualizationMode is in progress (after the first
\* load and any sequence of switches, overlapping ones and unrecognised
\* modes included), the current mode is a recognised one, every body of
\* SceneManager.celestialBodies was built from getScaledData(name, m) with
\* m the current mode, there is one body per name, and every body object in
\* the scene is a body of the map.
C13_OneProfileInForce ==
  NoSwitchInProgress =>
    /\ sceneManager.currentMode \in RecognisedModes
    /\ \A body \in sceneManager.celestialBodies :
         BuiltFrom(body, sceneManager.currentMode)
    /\ \A bodyName \in BodyNames :
         Cardinality({b \in sceneManager.celestialBodies :
                        b.name = bodyName}) = 1
    /\ \A object \in sceneManager.scene :
         object.kind = "body" =>
           \E body \in sceneManager.celestialBodies :
             BodyObject3D(body) = object

\* two switches have overlapped: the bodies are those of the artistic
\* profile, loaded last, and the switch that finished last has set another
\* mode on them
C13_AfterOverlappingSwitches ==
  /\ NoSwitchInProgress
  /\ sceneManager.loads >= 4
  /\ sceneManager.currentMode = "artistic"
  /\ \A body \in sceneManager.celestialBodies :
       /\ BuiltFrom(body, "artistic")
       /\ body.load = sceneManager.loads
       /\ body.currentMode # "artistic"

\* the scaled point of the orbit at a mean anomaly of exactly
\* 360 i / segments degrees, whatever the clock says
PointAtAnomaly(line, i, segments) ==
  OrbitPointFrom(
    OrbitalPositionAt(line.orbitalElements,
                      Num(Normalize360(SegmentAnomaly(i, segments)))),
    line.orbitalElements, line.scaleFactor)

SamePoint(p, q) ==
  SameLength(p.x, q.x) /\ SameLength(p.y, q.y) /\ SameLength(p.z, q.z)

\* C14: for i in 0..segments, point i of calculateOrbitPoints is the
\* position at mean anomaly exactly 360 i / segments degrees (point 0 is
\* the perihelion), at whatever instant of the clock it is evaluated.
C14_OrbitPathTimeless ==
  call.op = "calculateOrbitPoints" =>
    \A k \in DOMAIN call.result :
      SamePoint(call.result[k],
                PointAtAnomaly(call.line, k - 1, getSegmentCount(call.line)))

AccuracyTested == call.op = "runOrbitAccuracyTest"

\* a distance in AU agrees with a value quoted to three decimals
QuotedAs(distance, thousandths) ==
  IsNum(distance)
    /\ Abs(distance.v - thousandths * (AuScale \div 1000)) <= AuScale \div 1000

\* C17: for every planet the smallest and the largest distance from the
\* origin over the points of calculateOrbitPoints (scaleFactor 1, default
\* segments) are within 1% of a (1 - e) and a (1 + e); for Mars, sampled
\* with 256 segments, they are about 1.382 AU and 1.666 AU.
C17_OrbitExtremesAccurate ==
  AccuracyTested =>
    /\ WithinOnePercent(call.result.minDistance,
                        call.result.expectedPerihelion)
    /\ WithinOnePercent(call.result.maxDistance,
                        call.result.expectedAphelion)
    /\ call.name = "mars" =>
         /\ QuotedAs(call.result.minDistance, 1382)
         /\ QuotedAs(call.result.maxDistance, 1666)

\* Mars sampled away from the epoch, when no point is the perihelion itself
C17_MarsAwayFromEpoch ==
  /\ AccuracyTested
  /\ call.name = "mars"
  /\ call.now # J2000Date
  /\ call.result.minDistance.v > call.result.expectedPerihelion - LengthTolerance
  /\ call.result.maxDistance.v < call.result.expectedAphelion + LengthTolerance
  /\ getSegmentCount(OrbitLineConstructed("mars", SOLAR_SYSTEM_DATA.mars,
       [segments |-> 0, scaleFactor |-> 1, levelOfDetail |-> ""]))
       = 256 * Quarter

SegmentCountCalled == call.op = "getSegmentCount"

\* the base count of the level of detail, in quarters: a quarter of the
\* segments but at least 32 for 'low', half but at least 64 for 'medium',
\* the segments themselves for 'high' and for anything else
CalledBaseSegments ==
  IF call.levelOfDetail = "low"
  THEN (IF call.segments > 128 THEN call.segments ELSE 128)
  ELSE IF call.levelOfDetail = "medium"
  THEN (IF call.segments > 128 THEN 2 * call.segments ELSE 256)
  ELSE 4 * call.segments

\* count <= base * (1 + eccentricity), both in quarters
AtMostEnhanced(count) ==
  (count - CalledBaseSegments) * 10000
    <= CalledBaseSegments * (call.eccentricity \div 10000)
         + (CalledBaseSegments * (call.eccentricity % 10000)) \div 10000

\* the count is the whole number floor(base * (1 + eccentricity))
IsFloorOfEnhanced(count) ==
  count % 4 = 0 /\ AtMostEnhanced(count) /\ ~AtMostEnhanced(count + 4)

CappedAt512(count) == IF count > 2048 THEN 2048 ELSE count

\* C15: getSegmentCount takes the base count from the level of detail (with
\* the default 256 segments: low 64, medium 128, high or anything else 256),
\* replaces it by floor(base * (1 + eccentricity)) when the eccentricity
\* exceeds 0.1, and never returns more than 512, for every level of detail,
\* eccentricity in [0, 1) and configured segment number.
C15_SegmentCount ==
  SegmentCountCalled =>
    /\ call.result <= 2048
    /\ call.eccentricity * 10 <= Scale =>
         call.result = CappedAt512(CalledBaseSegments)
    /\ call.eccentricity * 10 > Scale =>
         \E whole \in 0..4000 :
           /\ IsFloorOfEnhanced(4 * whole)
           /\ call.result = CappedAt512(4 * whole)
    /\ (call.segments = 256 /\ call.eccentricity * 10 <= Scale) =>
         call.result = 4 * (CASE call.levelOfDetail = "low" -> 64
                              [] call.levelOfDetail = "medium" -> 128
                              [] OTHER -> 256)

\* Mercury's orbit at the default 256 segments and high detail: 308 segments
C15_MercuryEnhanced ==
  /\ SegmentCountCalled
  /\ call.segments = 256
  /\ call.levelOfDetail = "high"
  /\ call.eccentricity = SOLAR_SYSTEM_DATA.mercury.eccentricity
  /\ call.result = 4 * 308

\* create() has built the line of the OrbitLine
OrbitLineCreated == orbitLine # NoOrbitLine /\ orbitLine.line # 0

\* the geometry has getSegmentCount() + 1 vertices for the current level of
\* detail, scaled by the current scale factor
GeometryCurrent ==
  OrbitLineCreated =>
    /\ orbitLine.geometry # Null
    /\ orbitLine.geometry.vertices * Quarter
         = getSegmentCount(orbitLine) + Quarter
    /\ orbitLine.geometry.scaleFactor = orbitLine.scaleFactor

\* a call that changes neither the level of detail nor the scale factor
\* leaves the geometry object untouched
GeometryKeptUnlessChanged ==
  (/\ OrbitLineCreated
   /\ orbitLine'.levelOfDetail = orbitLine.levelOfDetail
   /\ orbitLine'.scaleFactor = orbitLine.scaleFactor)
    => orbitLine'.geometry = orbitLine.geometry

\* C16: after any sequence of setLevelOfDetail, update(newScaleFactor),
\* optimizeForPerformance and enableHighQuality on a created OrbitLine the
\* geometry has exactly getSegmentCount() + 1 vertices for the current
\* levelOfDetail, scaled by the current scaleFactor, and a call that changes
\* neither leaves the geometry object untouched.
C16_RecomputedOnlyOnChange ==
  []GeometryCurrent /\ [][GeometryKeptUnlessChanged]_vars

(***************************************************************************)
(* C20                                                                     *)
(***************************************************************************)
VisibilityCalled == call.op = "calculateVisibilityFromPosition"

\* the tier of an apparent magnitude by the fixed thresholds 1.0, 4.0, 6.5
\* and 10.0; a magnitude that is NaN is below none of them
TierOf(apparentMagnitude) ==
  IF apparentMagnitude = NegInf THEN "bright"
  ELSE IF ~IsNum(apparentMagnitude) THEN "invisible"
  ELSE IF apparentMagnitude.v < 1000000 THEN "bright"
  ELSE IF apparentMagnitude.v < 4000000 THEN "visible"
  ELSE IF apparentMagnitude.v < 6500000 THEN "faint"
  ELSE IF apparentMagnitude.v < 10000000 THEN "telescopic"
  ELSE "invisible"

\* the tier of a distance to the observer: visible under 20 AU, else faint
TierOfDistance(distanceToObserver) ==
  IF IsNum(distanceToObserver) /\ distanceToObserver.v < 20 * AuScale
  THEN "visible"
  ELSE "faint"

\* C20 as stated: whichever mode is passed, the visibility tier is the tier
\* of the apparent magnitude by the fixed thresholds, shouldRender is false
\* exactly for invisible and needsLabel is true exactly for faint and
\* telescopic.
C20_TierByMagnitudeInEveryMode ==
  VisibilityCalled =>
    /\ call.result.visibilityLevel = TierOf(call.result.apparentMagnitude)
    /\ call.result.shouldRender = (call.result.visibilityLevel # "invisible")
    /\ call.result.needsLabel
         = (call.result.visibilityLevel \in {"faint", "telescopic"})

\* C20: in realistic mode the visibility tier is the tier of the apparent
\* magnitude by the fixed thresholds and shouldRender is false exactly for
\* invisible; in every other mode the tier is that of the distance to the
\* observer (visible under 20 AU, faint otherwise) and shouldRender is true
\* exactly when that distance is a number; in all modes needsLabel is true
\* exactly for faint and telescopic.
C20_TierByMagnitudeInRealisticMode ==
  VisibilityCalled =>
    /\ call.mode = "realistic" =>
         /\ call.result.visibilityLevel
              = TierOf(call.result.apparentMagnitude)
         /\ call.result.shouldRender
              = (call.result.visibilityLevel # "invisible")
    /\ call.mode # "realistic" =>
         /\ call.result.visibilityLevel
              = TierOfDistance(call.result.distanceToObserver)
         /\ call.result.shouldRender
              = IsNum(call.result.distanceToObserver)
    /\ call.result.needsLabel
         = (call.result.visibilityLevel \in {"faint", "telescopic"})

\* a call in another mode than realistic returned visible for a magnitude
\* whose tier is invisible
C20_EnhancedModeShowsInvisible ==
  /\ VisibilityCalled
  /\ call.mode = "artistic"
  /\ call.result.visibilityLevel = "visible"
  /\ TierOf(call.result.apparentMagnitude) = "invisible"
  /\ call.result.shouldRender

(***************************************************************************)
(* C18                                                                     *)
(***************************************************************************)
ScaledDataReturned == call.op = "getScaledData" /\ call.result # Null

\* what getScaledData(bodyName, mode) returns when it is the first call
\* made on the catalog, with the clock at the epoch
FirstScaledData(bodyName, mode) ==
  getScaledData(CatalogObjects, bodyName, mode, J2000Date).result

\* the sized-and-placed part of a returned object
SizeOf(scaledData) ==
  [radius |-> scaledData.radius, semiMajorAxis |-> scaledData.semiMajorAxis]

\* the fields of a catalog entry that the size and the position are
\* computed from
ReadFields(bodyName) ==
  [f \in DOMAIN Lookup(bodyName) |-> catalog[bodyName][f]]

\* C18: repeated calls with unchanged inputs return identical results and
\* there is no hidden state.  A getScaledData call, whatever calls were made
\* before it and whatever the clock reads, returns the radius and
\* semiMajorAxis that the first call with the same name and mode returns; a
\* calculateHeliocentricPosition call on an entry's elements returns the
\* position that the first call with the same elements and date returns;
\* and no call changes what a later call reads.
C18_CallsRepeatIdentically ==
  /\ \A bodyName \in BodyNames : ReadFields(bodyName) = Lookup(bodyName)
  /\ ScaledDataReturned =>
       SizeOf(call.result) = SizeOf(FirstScaledData(call.names[1], call.mode))
  /\ call.op = "calculateHeliocentricPosition" =>
       call.result = calculateHeliocentricPosition(CatalogObjects[call.bodyName],
                                                   call.date)

\* a getScaledData call for Mars made away from the epoch: its position is
\* not the epoch's, its radius and semiMajorAxis are the first call's
C18_LaterCallSameSize ==
  /\ ScaledDataReturned
  /\ call.names = <<"mars">>
  /\ call.mode = "exploration"
  /\ call.now # J2000Date
  /\ call.result.currentPosition
       # FirstScaledData("mars", "exploration").currentPosition
  /\ SizeOf(call.result) = SizeOf(FirstScaledData("mars", "exploration"))

(***************************************************************************)
(* C19                                                                     *)
(***************************************************************************)
\* C19: the catalog is read-only for the core.  After any sequence of
\* getScaledData calls in any mode, of position, visibility and orbit-path
\* computations, every field of every SOLAR_SYSTEM_DATA and MOONS_DATA
\* entry is as the module created it; the scaled radius and semiMajorAxis
\* are in the returned copy; and the orbitalElements of an OrbitLine whose
\* points were computed are the entry it was constructed with.
C19_CatalogReadOnly ==
  /\ catalog = CatalogObjects
  /\ app = AppConstructed
  /\ ScaledDataReturned =>
       /\ call.result.radius
            = calculateScaledRadius(CatalogObjects[call.names[1]].radius,
                                    call.names[1], getScalingConfig(call.mode),
                                    call.mode)
       /\ call.result.semiMajorAxis
            = ScaleAxis(CatalogObjects[call.names[1]].semiMajorAxis,
                        getScalingConfig(call.mode).distanceScale)
  /\ call.op = "calculateOrbitPoints" =>
       call.line.orbitalElements = CatalogObjects[call.line.name]

\* an artistic call for Mars returned a copy with another colour, radius,
\* semiMajorAxis and emissiveIntensity field than the entry, which is as
\* created
C19_ArtisticCopyOfMars ==
  /\ ScaledDataReturned
  /\ call.names = <<"mars">>
  /\ call.mode = "artistic"
  /\ call.result.color # catalog.mars.color
  /\ call.result.radius # catalog.mars.radius
  /\ call.result.semiMajorAxis # catalog.mars.semiMajorAxis
  /\ "currentPosition" \notin DOMAIN catalog.mars
  /\ catalog.mars = CatalogObjects.mars

(***************************************************************************)
(* C21                                                                     *)
(***************************************************************************)
\* a magnitude call whose observer stands at the body or at the Sun
DegenerateGeometry ==
  /\ call.op = "calculateApparentMagnitude"
  /\ call.place \in {"body", "sun"}

\* C21: when the observer position coincides with the body's position or
\* with the central body's position, calculatePhaseAngle and
\* calculateApparentMagnitude return finite values: a phase angle within
\* [0, 180] degrees and a finite apparent magnitude, not NaN or an infinity.
C21_DegenerateGeometryFinite ==
  DegenerateGeometry =>
    /\ IsNum(call.result.phaseAngle)
    /\ call.result.phaseAngle.v >= 0
    /\ call.result.phaseAngle.v <= 180 * DegScale
    /\ IsNum(call.result.apparentMagnitude)

(***************************************************************************)
(* C22                                                                     *)
(***************************************************************************)
DaysCalled == call.op = "getDaysSinceJ2000"

WholeSegments(count) == count % Quarter = 0 /\ count >= Quarter

\* C30: the orbit polyline is closed.  For every level of detail and every
\* configured segment number getSegmentCount returns a whole number n >= 1,
\* calculateOrbitPoints returns exactly n + 1 points, and the last point
\* coincides with the first.
C30_OrbitPolylineClosed ==
  /\ call.op = "getSegmentCount" => WholeSegments(call.result)
  /\ call.op = "calculateOrbitPoints" =>
       /\ WholeSegments(getSegmentCount(call.line))
       /\ Quarter * (Len(call.result) - 1) = getSegmentCount(call.line)
       /\ SamePoint(call.result[1], call.result[Len(call.result)])

(***************************************************************************)
(* C26                                                                     *)
(***************************************************************************)
\* the orbit-line level of detail setVisualizationMode chooses for a mode
DetailOfMode(mode) ==
  CASE mode = "realistic" -> "low"
    [] mode = "exploration" -> "medium"
    [] OTHER -> "high"

\* C26: once every setVisualizationMode call has settled (overlapping calls
\* included), each body of celestialBodies has currentMode equal to
\* SceneManager.currentMode and its orbit line the level of detail chosen
\* for that mode.
C26_BodiesFollowCurrentMode ==
  NoSwitchInProgress /\ sceneManager.loads > 1 =>
    \A body \in sceneManager.celestialBodies :
      /\ body.currentMode = sceneManager.currentMode
      /\ HasOrbitLine(body) =>
           body.levelOfDetail = DetailOfMode(sceneManager.currentMode)

(***************************************************************************)
(* C25                                                                     *)
(***************************************************************************)
\* the first load has finished and no asynchronous call is in progress
SceneAtRest == sceneManager.loaded /\ sceneManager.pending = << >>

\* C25: after any sequence of frame updates, level-of-detail changes and
\* mode switches, for every body with an orbit line the line object that
\* getObject3D() returns is in the scene, and every orbit-line object in
\* the scene is the current line of a body of the map.
C25_SceneHoldsCurrentLines ==
  SceneAtRest =>
    /\ \A body \in sceneManager.celestialBodies :
         HasOrbitLine(body) => OrbitLineObject3D(body) \in sceneManager.scene
    /\ \A object \in sceneManager.scene :
         object.kind = "orbitLine" =>
           \E body \in sceneManager.celestialBodies :
             HasOrbitLine(body) /\ OrbitLineObject3D(body) = object

\* C23: telescope mode exists only in 'realistic' mode. In every state
\* reached through toggleTelescopeMode and setVisualizationMode calls in
\* any order, overlapping switches included, isTelescopeMode is true only
\* while currentMode is 'realistic'; with the telescope off the zoom level
\* is 1 and nothing is tracked, so leaving 'realistic' has switched it off,
\* reset the zoom and stopped tracking; and a toggle in another mode
\* changes nothing.
TelescopeOnlyInRealistic ==
  /\ sceneManager.telescope.isTelescopeMode
       => sceneManager.currentMode = "realistic" /\ sceneManager.telescopeSystem
  /\ ~sceneManager.telescope.isTelescopeMode
       => /\ sceneManager.telescope.zoomLevel = minZoom
          /\ ~sceneManager.telescope.isTracking
C23_TelescopeOnlyInRealistic ==
  /\ []TelescopeOnlyInRealistic
  /\ [][(ToggleTelescopeModeCall /\ sceneManager.currentMode # "realistic")
          => UNCHANGED sceneManager]_vars
  /\ [][(sceneManager.currentMode = "realistic"
           /\ sceneManager'.currentMode # "realistic")
          => sceneManager'.telescope = TelescopeConstructed]_vars
\* the telescope is on, zoomed in and tracking in 'realistic' mode while a
\* switch of the mode is still in progress
C23_TelescopeOnDuringSwitch ==
  /\ sceneManager.telescope.isTelescopeMode
  /\ sceneManager.telescope.zoomLevel > minZoom
  /\ sceneManager.telescope.isTracking
  /\ sceneManager.pending # << >>
\* the step in which a transition completes
TransitionCompletes ==
  app.travel.isTransitioning /\ ~app'.travel.isTransitioning

\* C24: when a travel started by travelTo completes, its promise resolves
\* with the name of the target and the camera is exactly at the target
\* position computed when it started; afterwards, while no movement key
\* has been held and no new travel has started, the camera stays at the
\* position read when the promise resolved, also after the delayed timer
\* has resumed the navigation controls.
C24_ArrivesAndStays ==
  /\ [][TransitionCompletes
          => /\ app'.resolved = app.travel.currentTarget
             /\ app'.camera = app.travel.targetPosition
             /\ app'.afterPosition = app'.camera]_vars
  /\ [](app.atRest => app.camera = app.afterPosition)
\* the camera is at rest at earth after the controls, used before the
\* travel, have been resumed
C24_AtRestAfterResume ==
  /\ app.atRest
  /\ app.resolved = "earth"
  /\ app.keys > 0
  /\ app.timers = 0
  /\ ~app.nav.isPaused
  /\ app.isRunning

\* C27: navigation is paused while a transition is in progress:
\* isTransitioning implies isPaused in every reachable state, also when a
\* new travelTo is accepted while the resume timer of the transition
\* before is still pending.
C27_PausedWhileTransitioning ==
  app.travel.isTransitioning => app.nav.isPaused

\* C28: at most one callback of animate is requested at any time, for
\* every sequence of start, pause and resume and of animation frames.
C28_AtMostOneLoop == app.scheduled <= 1

\* a call travelTo(bodyName, ...) returns
TravelToReturns(bodyName) ==
  \E speed \in Speeds, bodyPosition \in BodyPositions :
    app' = travelTo(app, sceneManager, bodyName, speed, bodyPosition)

\* C29: at most one camera transition is in flight. A travelTo during a
\* transition, or for a name that is no body of the scene, returns false
\* and leaves isTransitioning, currentTarget, the start and target
\* positions, the elapsed time and the pending promise as they are; the
\* running transition keeps its target until it completes there.
C29_OneTransitionInFlight ==
  /\ [][\A bodyName \in TravelNames :
          (/\ TravelToReturns(bodyName)
           /\ \/ app.travel.isTransitioning
              \/ \A body \in sceneManager.celestialBodies :
                   body.name # bodyName)
            => /\ app'.returned = "false"
               /\ app'.travel = app.travel
               /\ app'.camera = app.camera
               /\ app'.nav = app.nav]_vars
  /\ [][(app.travel.isTransitioning /\ app'.travel.isTransitioning)
          => /\ app'.travel.currentTarget = app.travel.currentTarget
             /\ app'.travel.startPosition = app.travel.startPosition
             /\ app'.travel.targetPosition = app.travel.targetPosition
             /\ app'.travel.transitionResolve]_vars
  /\ [][TransitionCompletes
          => /\ app'.camera = app.travel.targetPosition
             /\ app.travel.currentTarget \in {body.name :
                                                body \in sceneManager.celestialBodies}]_vars
\* a travelTo has been refused while a transition was under way
C29_RefusedDuringTransition ==
  /\ app.returned = "false"
  /\ app.travel.isTransitioning
  /\ app.travel.currentTransitionTime > 0
  /\ app.travel.currentTarget = "jupiter"

==============================================================================
